---- MODULE Spec2Model ----
(***************************************************************************)
(* Finance_Automator: the valuation/derivation pipeline.                   *)
(*                                                                         *)
(*   - dividends.py      dividend ingestion (DIV/DRIP marker events)       *)
(*   - values_cache.py   per-symbol value series, dirty set, warm          *)
(*   - startup_tasks.py  the background worker's task loop                 *)
(*                                                                         *)
(* Encodings.  A calendar day is a natural number 1..MaxDay (consecutive   *)
(* days of one month).  A date string is a record [fmt, d]: fmt says how   *)
(* the text is spelled ("iso" YYYY-MM-DD, "compact" YYYYMMDD, "slash"      *)
(* YYYY/MM/DD, "junk" text no parser accepts, "empty" the empty string)    *)
(* and d is the day it spells (0 for junk and empty).  A symbol is a       *)
(* tuple of letters, so that str.startswith is a real prefix test.  A note *)
(* is [tag, sym]: the text tag ":" sym, or the empty note when tag = "".   *)
(* Share counts and money are integers (the inputs are chosen so that the  *)
(* one division of the code, amount / price, is exact).                    *)
(***************************************************************************)
EXTENDS Integers, Sequences, FiniteSets, TLC

VARIABLES
    \* ---- dividends.py ----
    holdings,      \* portfolio.holdings: symbol -> sequence of events
    cash_events,   \* portfolio.cash_events
    divs,          \* the provider's dividend series: day -> per-share (NoRow: none)
    prices,        \* the provider's close prices:    day -> price (NoRow: none)
    divCache,      \* <SYMBOL>_dividends.csv: symbol -> [cols, dates], the file
    fs,            \* the portfolio file between the UI and the worker, and who wrote what
    \* ---- values_cache.compute_and_write_values_for_holding ----
    vEvents,       \* holding.events, in storage order
    vPrices,       \* the price history of the symbol: day -> close (NoRow: none)
    vRows,         \* the persisted value series: rows [date, shares, value]
    vResult,       \* "none" before the first call, then "true" / "false"
    vStart,        \* the start_iso of the last call
    vCalls,        \* the number of calls made (up to MaxCalls)
    mdCall,        \* one call of market_data.py: [fn, cache, avoid, responses, attempt, pc, result]
    jr,            \* the journal build: [symbols, caches, journal, builds]
    \* ---- values_cache.warm_values_cache_for_portfolio and the UI's edits ----
    clock,         \* the file system's clock (what a write stamps as mtime)
    portFile,      \* the portfolio file: symbol -> [ver, dated]
    portMtime,     \* its modification time
    dirtyFile,     \* dirty_symbols.json: a set of symbols
    cacheFile,     \* <SYMBOL>_values.csv: symbol -> [exists, mtime, ver]
    pricesOk,      \* the provider has a price history for the symbol (it has one for AB)
    ui,            \* the UI's edit handler: [pc, sym, new, buf]
    warm,          \* the worker's warm call: its position, locals and what it did
    \* the worker's task loop (startup_tasks.py)
    taskQ,         \* the task queue, UI -> worker
    progressQ,     \* the progress queue, worker -> UI
    worker,        \* the loop: [pc, task, n, first, fires]
    storeOk,       \* the portfolio file loads (no row load_portfolio raises on)
    calls,         \* the calls the worker made into the other modules, in order
    batch          \* one batch of the worker: [kind, items, i, sent, processed]

ingestVars == <<holdings, cash_events, divs, prices, divCache, fs>>
valueVars == <<vEvents, vPrices, vRows, vResult, vStart, vCalls, mdCall, jr>>
warmVars == <<clock, portFile, portMtime, dirtyFile, cacheFile, pricesOk, ui, warm>>
workerVars == <<taskQ, progressQ, worker, storeOk, calls, batch>>
vars == <<ingestVars, valueVars, warmVars, workerVars>>

\* The parts of the state a specification leaves alone.
ValuesIdle ==
    /\ vEvents = <<>>
    /\ vPrices = <<>>
    /\ vRows = <<>>
    /\ vResult = "none"
    /\ vStart = <<>>
    /\ vCalls = 0
    /\ mdCall = <<>>
    /\ jr = <<>>

IngestIdle ==
    /\ holdings = <<>>
    /\ cash_events = <<>>
    /\ divs = <<>>
    /\ prices = <<>>
    /\ divCache = <<>>
    /\ fs = <<>>

WarmIdle ==
    /\ clock = 0
    /\ portFile = <<>>
    /\ portMtime = 0
    /\ dirtyFile = {}
    /\ cacheFile = <<>>
    /\ pricesOk = <<>>
    /\ ui = <<>>
    /\ warm = <<>>

WorkerIdle ==
    /\ taskQ = <<>>
    /\ progressQ = <<>>
    /\ worker = <<>>
    /\ storeOk = TRUE
    /\ calls = <<>>
    /\ batch = <<>>

\* ---------------------------------------------------------------- bounds
MaxDay == 3
MaxEvents == 2
MaxCalls == 2
NoRow == 0 - 1

Days == 1..MaxDay

\* ----------------------------------------------------------- sequences
RECURSIVE SumSeq(_)
SumSeq(s) == IF s = <<>> THEN 0 ELSE Head(s) + SumSeq(Tail(s))

RECURSIVE SelectIdx(_, _, _)
\* the indexes i >= k of s, ascending, with s[i] # NoRow
SelectIdx(s, k, hi) ==
    IF k > hi THEN <<>>
    ELSE IF s[k] # NoRow THEN <<k>> \o SelectIdx(s, k + 1, hi)
    ELSE SelectIdx(s, k + 1, hi)

IsPrefix(p, s) == Len(p) <= Len(s) /\ SubSeq(s, 1, Len(p)) = p

Max(a, b) == IF a >= b THEN a ELSE b

\* ---------------------------------------------------------------- dates
Iso(d) == [fmt |-> "iso", d |-> d]
EmptyDate == [fmt |-> "empty", d |-> 0]

\* dividends._normalize_date: strptime with %Y-%m-%d, then %Y%m%d; the text
\* itself when neither parses.
NormalizeDate(ds) ==
    IF ds.fmt \in {"iso", "compact"} THEN Iso(ds.d) ELSE ds

\* Python's truth value of the date text.
NonEmpty(ds) == ds.fmt # "empty"

\* datetime.fromisoformat accepts the text (it raises ValueError otherwise).
IsoParsable(ds) == ds.fmt = "iso"

\* Order of the date texts as Python strings, all days being in one month:
\* "" < "2024-01-DD" < "2024/01/DD" < "202401DD" < text starting with a letter.
FmtRank(f) ==
    CASE f = "empty" -> 0
      [] f = "iso" -> 1
      [] f = "slash" -> 2
      [] f = "compact" -> 3
      [] OTHER -> 4

StrLeq(a, b) ==
    \/ FmtRank(a.fmt) < FmtRank(b.fmt)
    \/ FmtRank(a.fmt) = FmtRank(b.fmt) /\ a.d <= b.d

\* ---------------------------------------------------------------- events
NoNote == [tag |-> "", sym |-> <<>>]
Marker(tag, sym) == [tag |-> tag, sym |-> sym]

\* (ev.note or "").startswith(marker)
NoteStartsWith(note, marker) ==
    note.tag = marker.tag /\ IsPrefix(marker.sym, note.sym)

Event(date, type, shares, price, amount, note) ==
    [date |-> date, type |-> type, shares |-> shares, price |-> price,
     amount |-> amount, note |-> note]

\* The sort key of an event: dividends.py sorts by the normalized date text
\* (norm), values_cache.py by the date text as stored.
SortKey(e, norm) == IF norm THEN NormalizeDate(e.date) ELSE e.date

RECURSIVE Insert(_, _, _)
\* insert e after every element whose key is <= e's (a stable sort's step)
Insert(e, s, norm) ==
    IF s = <<>> THEN <<e>>
    ELSE IF StrLeq(SortKey(Head(s), norm), SortKey(e, norm))
         THEN <<Head(s)>> \o Insert(e, Tail(s), norm)
         ELSE <<e>> \o s

RECURSIVE SortedBy(_, _)
\* sorted(events, key=...): stable, ascending in the key's string order
SortedBy(s, norm) ==
    IF s = <<>> THEN <<>>
    ELSE Insert(s[Len(s)], SortedBy(SubSeq(s, 1, Len(s) - 1), norm), norm)

\* the signed share delta of an event
SignedShares(e) ==
    IF e.type = "purchase" THEN e.shares
    ELSE IF e.type = "sale" THEN 0 - e.shares
    ELSE 0

RECURSIVE SumOver(_, _)
\* the sum of the signed share deltas of the events at the indexes I
SumOver(events, I) ==
    IF I = {} THEN 0
    ELSE LET i == CHOOSE j \in I : TRUE
         IN  SignedShares(events[i]) + SumOver(events, I \ {i})

\* ------------------------------------------------------------ dividends.py
RECURSIVE OwnedWalk(_, _, _)
\* the loop of compute_owned_shares_on_date over the sorted events:
\* [err |-> fromisoformat raised, shares |-> the running sum at the break]
OwnedWalk(s, target, acc) ==
    IF s = <<>> THEN [err |-> FALSE, shares |-> acc]
    ELSE LET ev == Head(s)
             iso == NormalizeDate(ev.date)
         IN  IF ~NonEmpty(iso) THEN OwnedWalk(Tail(s), target, acc)
             ELSE IF ~IsoParsable(iso) THEN [err |-> TRUE, shares |-> acc]
             ELSE IF iso.d > target THEN [err |-> FALSE, shares |-> acc]
             ELSE IF ev.type = "purchase"
                  THEN OwnedWalk(Tail(s), target, acc + ev.shares)
             ELSE IF ev.type = "sale"
                  THEN OwnedWalk(Tail(s), target, acc - ev.shares)
             ELSE OwnedWalk(Tail(s), target, acc)

\* a replay that stops before the events of the target date
compute_owned_shares_on_date_Exclusive(events, target) ==
    LET r == OwnedWalk(SortedBy(events, TRUE), target - 1, 0)
    IN  [err |-> r.err, shares |-> Max(r.shares, 0)]

compute_owned_shares_on_date(events, target) ==
    LET r == OwnedWalk(SortedBy(events, TRUE), target, 0)
    IN  [err |-> r.err, shares |-> Max(r.shares, 0)]

HasMarkedEvent(events, type, marker, day) ==
    \E i \in 1..Len(events) :
        /\ events[i].type = type
        /\ NormalizeDate(events[i].date) = Iso(day)
        /\ NoteStartsWith(events[i].note, marker)

\* a scan that looks at purchases instead of dividends
has_cash_dividend_on_date_WrongType(cash, sym, day) ==
    HasMarkedEvent(cash, "purchase", Marker("DIV", sym), day)

has_cash_dividend_on_date(cash, sym, day) ==
    HasMarkedEvent(cash, "dividend", Marker("DIV", sym), day)

\* a scan that looks at purchases instead of dividends
has_symbol_dividend_on_date_WrongType(events, sym, day) ==
    HasMarkedEvent(events, "purchase", Marker("DIV", sym), day)

has_symbol_dividend_on_date(events, sym, day) ==
    HasMarkedEvent(events, "dividend", Marker("DIV", sym), day)

\* a scan that looks at dividends instead of purchases
has_drip_purchase_on_date_WrongType(events, sym, day) ==
    HasMarkedEvent(events, "dividend", Marker("DRIP", sym), day)

has_drip_purchase_on_date(events, sym, day) ==
    HasMarkedEvent(events, "purchase", Marker("DRIP", sym), day)

\* market_data.fetch_price_history read from the price cache: the rows with
\* start <= date <= end, both ends included (market_data.py:79)
PriceRows(series, start, end) ==
    SelectIdx(series, Max(start, 1), IF end < Len(series) THEN end ELSE Len(series))

\* dividends._first_available_close_price: the first row of the window
\* [on_date, on_date + 5 + 1]; NoRow when the window has no row
PriceWindowDays == 5
first_available_close_price(series, day) ==
    LET rows == PriceRows(series, day, day + PriceWindowDays + 1)
    IN  IF rows = <<>> THEN NoRow ELSE series[rows[1]]

\* market_data.fetch_dividends: the ex-dates with start <= date <= end
fetch_dividends(series, start, end) ==
    SelectIdx(series, Max(start, 1), IF end < MaxDay THEN end ELSE MaxDay)

\* an iteration that posts the cash dividend whatever the policy
IngestOne_CashAlways(st, sym, ex, per_share, priceSeries, reinvest) ==
    LET owned == compute_owned_shares_on_date(st.ev, ex)
        cash_amount == per_share * owned.shares
        divEv == Event(Iso(ex), "dividend", 0, 0, cash_amount, Marker("DIV", sym))
        st1 == IF has_symbol_dividend_on_date(st.ev, sym, ex) THEN st
               ELSE [st EXCEPT !.ev = Append(@, divEv), !.changes = @ + 1]
        st2 == IF has_cash_dividend_on_date(st1.cash, sym, ex) THEN st1
               ELSE [st1 EXCEPT !.cash = Append(@, divEv), !.changes = @ + 1]
        price == first_available_close_price(priceSeries, ex)
        dripEv == Event(Iso(ex), "purchase", cash_amount \div price, price, 0,
                        Marker("DRIP", sym))
    IN  IF owned.err THEN [st EXCEPT !.err = TRUE]
        ELSE IF owned.shares <= 0 THEN st
        ELSE IF cash_amount = 0 THEN st
        ELSE IF reinvest
             THEN IF has_drip_purchase_on_date(st2.ev, sym, ex) THEN st2
                  ELSE IF price # NoRow /\ price > 0
                       THEN [st2 EXCEPT !.ev = Append(@, dripEv), !.changes = @ + 1]
                       ELSE st2
             ELSE st2

\* One iteration of the loop of ingest_dividends_for_holding_range for the
\* ex-date ex; st = [ev, cash, changes, err].
IngestOne(st, sym, ex, per_share, priceSeries, reinvest) ==
    LET owned == compute_owned_shares_on_date(st.ev, ex)
        cash_amount == per_share * owned.shares
        divEv == Event(Iso(ex), "dividend", 0, 0, cash_amount, Marker("DIV", sym))
        st1 == IF has_symbol_dividend_on_date(st.ev, sym, ex) THEN st
               ELSE [st EXCEPT !.ev = Append(@, divEv), !.changes = @ + 1]
        price == first_available_close_price(priceSeries, ex)
        dripEv == Event(Iso(ex), "purchase", cash_amount \div price, price, 0,
                        Marker("DRIP", sym))
    IN  IF owned.err THEN [st EXCEPT !.err = TRUE]
        ELSE IF owned.shares <= 0 THEN st
        ELSE IF cash_amount = 0 THEN st
        ELSE IF reinvest
             THEN IF has_drip_purchase_on_date(st1.ev, sym, ex) THEN st1
                  ELSE IF price # NoRow /\ price > 0
                       THEN [st1 EXCEPT !.ev = Append(@, dripEv), !.changes = @ + 1]
                       ELSE st1
             ELSE IF has_cash_dividend_on_date(st1.cash, sym, ex) THEN st1
                  ELSE [st1 EXCEPT !.cash = Append(@, divEv), !.changes = @ + 1]

RECURSIVE IngestLoop_NewestFirst(_, _, _, _, _, _)
\* a loop that takes the ex-dates newest first
IngestLoop_NewestFirst(st, sym, exs, divSeries, priceSeries, reinvest) ==
    IF exs = <<>> \/ st.err THEN st
    ELSE IngestLoop_NewestFirst(
             IngestOne(st, sym, exs[Len(exs)], divSeries[exs[Len(exs)]],
                       priceSeries, reinvest),
             sym, SubSeq(exs, 1, Len(exs) - 1), divSeries, priceSeries, reinvest)

RECURSIVE IngestLoop(_, _, _, _, _, _)
IngestLoop(st, sym, exs, divSeries, priceSeries, reinvest) ==
    IF exs = <<>> \/ st.err THEN st
    ELSE IngestLoop(IngestOne(st, sym, Head(exs), divSeries[Head(exs)],
                              priceSeries, reinvest),
                    sym, Tail(exs), divSeries, priceSeries, reinvest)

\* ingest_dividends_for_holding_range(portfolio, holding, start, end, reinvest)
\* on the holding's events ev and portfolio.cash_events cash
ingest_dividends_for_holding_range(ev, cash, sym, start, end, reinvest, divSeries, priceSeries) ==
    IngestLoop([ev |-> ev, cash |-> cash, changes |-> 0, err |-> FALSE],
               sym, fetch_dividends(divSeries, start, end),
               divSeries, priceSeries, reinvest)

\* ---------------------------------------------------------- values_cache.py
\* pd.Timestamp(text) of a non-empty date text: pandas parses YYYY-MM-DD,
\* YYYYMMDD and YYYY/MM/DD; it raises for text that is no date.
TimestampParses(ds) == ds.fmt \in {"iso", "compact", "slash"}

\* index.searchsorted(ts, side="left"): the first position of idx (ascending
\* days) whose day is >= day; Len(idx) + 1 when there is none
SearchSortedLeft(idx, day) ==
    LET at == {k \in 1..Len(idx) : idx[k] >= day}
    IN  IF at = {} THEN Len(idx) + 1 ELSE CHOOSE k \in at : \A j \in at : k <= j

RECURSIVE ChangesLoop(_, _, _)
\* the loop over the sorted events (values_cache.py:87-102) on the delta
\* series `changes`, aligned to idx
ChangesLoop(s, idx, changes) ==
    IF s = <<>> THEN changes
    ELSE LET ev == Head(s)
             pos == SearchSortedLeft(idx, ev.date.d)
         IN  IF ~NonEmpty(ev.date) THEN ChangesLoop(Tail(s), idx, changes)
             ELSE IF ~TimestampParses(ev.date) THEN ChangesLoop(Tail(s), idx, changes)
             ELSE IF pos > Len(idx) THEN ChangesLoop(Tail(s), idx, changes)
             ELSE IF ev.type = "purchase"
                  THEN ChangesLoop(Tail(s), idx, [changes EXCEPT ![pos] = @ + ev.shares])
             ELSE IF ev.type = "sale"
                  THEN ChangesLoop(Tail(s), idx, [changes EXCEPT ![pos] = @ - ev.shares])
             ELSE ChangesLoop(Tail(s), idx, changes)

RECURSIVE CumSum(_, _)
CumSum(s, acc) ==
    IF s = <<>> THEN <<>> ELSE <<acc + Head(s)>> \o CumSum(Tail(s), acc + Head(s))

\* compute_and_write_values_for_holding(holding, start_iso): the price rows
\* from start to today; [ok, rows], rows being what is written to the file
RECURSIVE Zeros(_)
\* pd.Series(0.0, index=idx)
Zeros(n) == IF n = 0 THEN <<>> ELSE Append(Zeros(n - 1), 0)

RECURSIVE ValueRows(_, _, _)
\* the rows (date, shares, shares * close) of the written file
ValueRows(idx, cum, series) ==
    IF idx = <<>> THEN <<>>
    ELSE <<[date |-> Head(idx), shares |-> Head(cum),
            value |-> Head(cum) * series[Head(idx)]]>>
         \o ValueRows(Tail(idx), Tail(cum), series)

\* a write that appends to the rows already in the file
compute_and_write_values_for_holding_Append(events, start, series) ==
    LET idx == IF TimestampParses(start) THEN PriceRows(series, start.d, MaxDay)
               ELSE <<>>
        deltas == ChangesLoop(SortedBy(events, FALSE), idx, Zeros(Len(idx)))
    IN  IF idx = <<>> THEN [ok |-> FALSE, rows |-> <<>>]
        ELSE [ok |-> TRUE, rows |-> vRows \o ValueRows(idx, CumSum(deltas, 0), series)]

compute_and_write_values_for_holding(events, start, series) ==
    LET idx == IF TimestampParses(start) THEN PriceRows(series, start.d, MaxDay)
               ELSE <<>>
        deltas == ChangesLoop(SortedBy(events, FALSE), idx, Zeros(Len(idx)))
    IN  IF idx = <<>> THEN [ok |-> FALSE, rows |-> <<>>]
        ELSE [ok |-> TRUE, rows |-> ValueRows(idx, CumSum(deltas, 0), series)]

RECURSIVE SeqsUpTo(_, _)
\* the sequences over S of length <= n
SeqsUpTo(S, n) ==
    IF n = 0 THEN {<<>>}
    ELSE LET shorter == SeqsUpTo(S, n - 1)
         IN  shorter \cup {Append(q, x) : q \in {r \in shorter : Len(r) = n - 1}, x \in S}

\* The events of a holding, as the portfolio tab lets them be entered:
\* purchases, sales and dividends, dated in any spelling.
ValueEventPool ==
    { Event(Iso(2), "purchase", 10, 5, 0, NoNote),
      Event([fmt |-> "compact", d |-> 1], "purchase", 3, 5, 0, NoNote),
      Event(Iso(3), "sale", 4, 5, 0, NoNote),
      Event([fmt |-> "slash", d |-> 1], "purchase", 7, 5, 0, NoNote),
      Event([fmt |-> "junk", d |-> 0], "purchase", 6, 5, 0, NoNote),
      Event(EmptyDate, "sale", 1, 5, 0, NoNote),
      Event(Iso(1), "dividend", 0, 0, 20, Marker("DIV", <<"A">>)) }

\* Price histories: closes on every day, on no day, or with one day missing.
ValuePriceChoices ==
    { [d \in Days |-> IF d = gap THEN NoRow ELSE 5 + d] : gap \in 0..MaxDay }
    \cup { [d \in Days |-> NoRow] }

InitValues ==
    /\ vEvents \in SeqsUpTo(ValueEventPool, MaxEvents)
    /\ vPrices \in ValuePriceChoices
    /\ vRows = <<>>
    /\ vResult = "none"
    /\ vStart = <<>>
    /\ vCalls = 0
    /\ mdCall = <<>>
    /\ jr = <<>>
    /\ IngestIdle
    /\ WarmIdle
    /\ WorkerIdle

\* A call of compute_and_write_values_for_holding with the given start date.
Compute(start) ==
    LET r == compute_and_write_values_for_holding(vEvents, start, vPrices)
    IN  /\ vRows' = r.rows
        /\ vResult' = IF r.ok THEN "true" ELSE "false"
        /\ vStart' = start
        /\ vCalls' = IF vCalls < MaxCalls THEN vCalls + 1 ELSE vCalls
        /\ UNCHANGED <<vEvents, vPrices, mdCall, jr, ingestVars, warmVars, workerVars>>

NextValues == \E d \in Days : Compute(Iso(d))

SpecValues == InitValues /\ [][NextValues]_vars

\* C3: cumulative shares correctness: for any list of events of one holding,
\* in any storage order, the shares written for each price-series date D equal
\* the sum over the events with normalized date <= D of the signed share delta
\* (purchase +shares, sale -shares, every other type 0).  The normalized date
\* is that of _normalize_date; a date it cannot parse is after every date.
C3_CumulativeShares ==
    \A k \in 1..Len(vRows) :
        vRows[k].shares =
            SumOver(vEvents, {i \in 1..Len(vEvents) :
                                 /\ NormalizeDate(vEvents[i].date).fmt = "iso"
                                 /\ NormalizeDate(vEvents[i].date).d <= vRows[k].date})

\* What the code does write: the sum over the events whose date text
\* pd.Timestamp parses to a day <= D.
ValuesSharesByParsedDate ==
    \A k \in 1..Len(vRows) :
        vRows[k].shares =
            SumOver(vEvents, {i \in 1..Len(vEvents) :
                                 /\ TimestampParses(vEvents[i].date)
                                 /\ vEvents[i].date.d <= vRows[k].date})

Attempts == 3
BaseDelay == 2

ProviderResponses == {"data", "empty", "malformed", "network_error", "timeout"}

ProviderFailures == {"malformed", "network_error", "timeout"}

SeqsOfLen(S, n) == {q \in SeqsUpTo(S, n) : Len(q) = n}

\* <SYMBOL>_prices.csv (market_data.py:45-82): no file; a file with rows in
\* the window asked for; a file with rows, none of them in the window; a
\* file that does not read
CacheStates == {"missing", "hit", "outside", "corrupt"}

InitProvider ==
    /\ \E fn \in {"fetch_price_history", "fetch_dividends"},
          cache \in CacheStates,
          avoid \in BOOLEAN,
          responses \in SeqsOfLen(ProviderResponses, Attempts) :
             /\ fn = "fetch_dividends" => cache = "missing" /\ ~avoid
             /\ mdCall = [fn |-> fn, cache |-> cache, avoid |-> avoid,
                          responses |-> responses, attempt |-> 0,
                          pc |-> "start", result |-> "none",
                          made |-> 0, waits |-> <<>>, retried |-> "none"]
    /\ vEvents = <<>>
    /\ vPrices = <<>>
    /\ vRows = <<>>
    /\ vResult = "none"
    /\ vStart = <<>>
    /\ vCalls = 0
    /\ jr = <<>>
    /\ IngestIdle
    /\ WarmIdle
    /\ WorkerIdle

Returns(result) == [mdCall EXCEPT !.pc = "done", !.result = result]

\* a read of the cache that goes on to the provider whatever avoid_network
ReadCache_IgnoreAvoid ==
    /\ mdCall.fn = "fetch_price_history"
    /\ mdCall.pc = "start"
    /\ mdCall' = IF mdCall.cache = "hit" THEN Returns("rows")
                 ELSE [mdCall EXCEPT !.pc = "api"]
    /\ UNCHANGED <<vEvents, vPrices, vRows, vResult, vStart, vCalls, jr, ingestVars, warmVars, workerVars>>

\* market_data.py:44-82, 101-108: a cache file that does not read is no cache
\* (81-82), and the rows of the window are returned when there are any
\* (102-104); without rows from the cache, avoid_network answers empty.
\* prefer_cache is True in every call: no caller passes it.
ReadCache ==
    /\ mdCall.fn = "fetch_price_history"
    /\ mdCall.pc = "start"
    /\ mdCall' = IF mdCall.cache = "hit" THEN Returns("rows")
                 ELSE IF mdCall.avoid THEN Returns("empty")
                 ELSE [mdCall EXCEPT !.pc = "api"]
    /\ UNCHANGED <<vEvents, vPrices, vRows, vResult, vStart, vCalls, jr, ingestVars, warmVars, workerVars>>

\* a sleep of the same length after every failed attempt
Backoff_Constant(i) == BaseDelay

\* market_data.py:26: time.sleep(base_delay * (2 ** i)) after the failure of
\* attempt i, i counted from 0
Backoff(i) == BaseDelay * 2 ^ i

\* market_data.py:19-28, 84-99, 110-115: one attempt of _with_retries around
\* _call_api.  An exception of ticker.history is swallowed, slept on and the
\* call retried; after the last attempt _with_retries returns None, which is
\* an empty frame (111-113); an answer that is no DataFrame, or an empty one,
\* is an empty frame (87-88).  made counts the calls of _call_api, waits
\* holds the sleeps, retried is what _with_retries returned.
CallApi ==
    /\ mdCall.fn = "fetch_price_history"
    /\ mdCall.pc = "api"
    /\ LET r == mdCall.responses[mdCall.attempt + 1]
           called == [mdCall EXCEPT !.made = @ + 1]
           failed == [called EXCEPT !.waits = Append(@, Backoff(mdCall.attempt)),
                                    !.attempt = @ + 1]
       IN  mdCall' =
             IF r = "data"
             THEN [called EXCEPT !.pc = "done", !.result = "rows", !.retried = "value"]
             ELSE IF r \in {"empty", "malformed"}
             THEN [called EXCEPT !.pc = "done", !.result = "empty", !.retried = "value"]
             ELSE IF mdCall.attempt + 1 = Attempts
             THEN [failed EXCEPT !.pc = "done", !.result = "empty", !.retried = "None"]
             ELSE failed
    /\ UNCHANGED <<vEvents, vPrices, vRows, vResult, vStart, vCalls, jr, ingestVars, warmVars, workerVars>>

\* market_data.py:118-133: ticker.dividends is read once, in no try and with
\* no retry, and what it raises leaves the function; so does the comparison
\* of an index that holds no dates with the start and end dates (131).
FetchDividendsCall ==
    /\ mdCall.fn = "fetch_dividends"
    /\ mdCall.pc = "start"
    /\ LET r == mdCall.responses[1]
           called == [mdCall EXCEPT !.made = @ + 1, !.pc = "done"]
       IN  mdCall' = IF r = "data" THEN [called EXCEPT !.result = "rows"]
                     ELSE IF r = "empty" THEN [called EXCEPT !.result = "empty"]
                     ELSE [called EXCEPT !.result = "raised"]
    /\ UNCHANGED <<vEvents, vPrices, vRows, vResult, vStart, vCalls, jr, ingestVars, warmVars, workerVars>>

NextProvider ==
    \/ ReadCache
    \/ CallApi
    \/ FetchDividendsCall

SpecProvider == InitProvider /\ [][NextProvider]_vars

\* C20: no call of fetch_price_history or fetch_dividends ends by raising,
\* and a call every request of which the provider failed returns empty.
C20_ProviderErrorsSurfaceEmpty ==
    mdCall.pc = "done" =>
        /\ mdCall.result # "raised"
        /\ (mdCall.cache # "hit"
              /\ \A k \in 1..Attempts : mdCall.responses[k] \in ProviderFailures)
             => mdCall.result = "empty"

Raises(r) == r \in {"network_error", "timeout"}

\* the attempts of the call that raised come first: k of them
FirstAnswer(responses) ==
    IF \E k \in 1..Attempts : ~Raises(responses[k])
    THEN CHOOSE k \in 1..Attempts :
            /\ ~Raises(responses[k])
            /\ \A j \in 1..(k - 1) : Raises(responses[j])
    ELSE 0

\* C21: _with_retries calls the wrapped function at most 3 times; it returns
\* what the first attempt that does not raise returned, without a further
\* attempt; it sleeps 2 s before the second attempt and 4 s before the third;
\* and when all 3 attempts raise it returns None and raises nothing.
C21_RetryPolicy ==
    (mdCall.fn = "fetch_price_history" /\ mdCall.pc \in {"api", "done"}) =>
        /\ mdCall.made <= Attempts
        /\ mdCall.made >= 2 => mdCall.waits[1] = 2
        /\ mdCall.made >= 3 => mdCall.waits[2] = 4
        /\ (mdCall.pc = "done" /\ mdCall.retried # "none") =>
              LET k == FirstAnswer(mdCall.responses)
              IN  IF k > 0
                  THEN /\ mdCall.made = k
                       /\ mdCall.retried = "value"
                       /\ mdCall.result = IF mdCall.responses[k] = "data"
                                          THEN "rows" ELSE "empty"
                  ELSE /\ mdCall.made = Attempts
                       /\ mdCall.retried = "None"
                       /\ mdCall.result # "raised"

\* the first two attempts raised and the third answered
C21_Witness ==
    /\ mdCall.fn = "fetch_price_history"
    /\ mdCall.pc = "done"
    /\ mdCall.made = 3
    /\ mdCall.retried = "value"
    /\ mdCall.result = "rows"

SymA == <<"A">>
SymAB == <<"A", "B">>
Symbols == {SymA, SymAB}

\* The events a user enters through the portfolio tab (free-form dates), in
\* the order entered.
UserEventPool ==
    << Event(Iso(1), "purchase", 10, 5, 0, NoNote),
       Event([fmt |-> "compact", d |-> 3], "sale", 12, 5, 0, NoNote),
       Event(EmptyDate, "purchase", 4, 5, 0, NoNote),
       Event([fmt |-> "junk", d |-> 0], "purchase", 6, 5, 0, NoNote) >>

RECURSIVE Pick(_, _, _)
\* the subsequence of s at the indexes in I, from index k on
Pick(s, I, k) ==
    IF k > Len(s) THEN <<>>
    ELSE IF k \in I THEN <<s[k]>> \o Pick(s, I, k + 1)
    ELSE Pick(s, I, k + 1)

InitialEventLists ==
    { Pick(UserEventPool, I, 1) :
        I \in {J \in SUBSET (1..Len(UserEventPool)) : Cardinality(J) <= MaxEvents} }

\* The provider's dividend series: two ex-dates, day 2 and the last day, with
\* per-share amounts 2/2, 0/2 or 2/0.
DivChoices ==
    { [d \in Days |-> IF d = 2 THEN a ELSE IF d = MaxDay THEN b ELSE NoRow] :
        a \in {0, 2}, b \in {0, 2} } \ {[d \in Days |-> IF d \in {2, MaxDay} THEN 0 ELSE NoRow]}

\* The provider's close prices: none at all; 2 on every day; a close of 0 on
\* day 2 and of 2 on the other days.
PriceChoices ==
    { [d \in Days |-> NoRow],
      [d \in Days |-> 2],
      [d \in Days |-> IF d = 2 THEN 0 ELSE 2] }

\* the set of the days in a sequence of days
DaySet(exs) == {exs[i] : i \in 1..Len(exs)}

\* <SYMBOL>_dividends.csv (dividends.py:98-99; prefetch.py:59): the names of
\* its columns and the dates of its rows; no file at all is NoFile
CacheColumns == "date,per_share"

PrefetchColumns == "Date,value"

NoFile == [cols |-> "none", dates |-> {}]

\* _read_dividend_cache (dividends.py:102-116): the dates of the rows that
\* have a "date" cell; no file, or a file without that column, gives {}
read_dividend_cache(file) ==
    IF file.cols = CacheColumns THEN file.dates ELSE {}

\* _write_dividend_cache (dividends.py:119-132): what _read_dividend_cache
\* reads, merged with the series, written with the columns date, per_share
write_dividend_cache(file, exs) ==
    [cols |-> CacheColumns, dates |-> read_dividend_cache(file) \cup DaySet(exs)]

\* nothing held back
NothingNew_Never(cached, exs) == FALSE

\* dividends.py:210-213: no fetched date is missing from a cache that has
\* dates
NothingNew(cached, exs) == DaySet(exs) \subseteq cached /\ cached # {}

InitIngest ==
    /\ \E evA \in InitialEventLists :
          holdings = [s \in Symbols |->
                        IF s = SymA THEN evA
                        ELSE <<Event(Iso(1), "purchase", 10, 5, 0, NoNote)>>]
    /\ cash_events = <<>>
    /\ divs \in DivChoices
    /\ prices \in PriceChoices
    /\ divCache = [s \in Symbols |-> NoFile]
    /\ fs = <<>>
    /\ ValuesIdle
    /\ WarmIdle
    /\ WorkerIdle

\* The result of a call of ingest_dividends_for_holding_range on holding sym
\* in the current state.
IngestResult(sym, start, end, reinvest) ==
    ingest_dividends_for_holding_range(holdings[sym], cash_events, sym,
                                       start, end, reinvest, divs, prices)

\* A call of ingest_dividends_for_holding_range: the holding and the portfolio
\* are mutated in place (also by a call that raises half way).
Ingest(sym, start, end, reinvest) ==
    LET r == IngestResult(sym, start, end, reinvest)
    IN  /\ holdings' = [holdings EXCEPT ![sym] = r.ev]
        /\ cash_events' = r.cash
        /\ UNCHANGED <<divs, prices, divCache, fs, valueVars, warmVars, workerVars>>

\* the date texts of the events that have one, normalized (dividends.py:202)
DatedKeys(ev) ==
    {NormalizeDate(ev[i].date) : i \in {j \in 1..Len(ev) : NonEmpty(ev[j].date)}}

\* min() of a non-empty set of date texts, in string order
MinKey(K) == CHOOSE k \in K : \A o \in K : StrLeq(k, o)

\* a pass that was not run
NotRun == 0 - 1

\* a second pass after every first pass
RunsSecondPass_Always(changes) == changes >= 0

\* dividends.py:221: if changes > 0
RunsSecondPass(changes) == changes > 0

\* One holding of the loop of cache_and_ingest_dividends_for_file
\* (dividends.py:198-222); st = [hold, cash, cache, total, err, first,
\* second], first and second being what the passes over each holding
\* returned; today is the last day.  min() raises when no event has a date (202), fetch_dividends
\* when the start text is no date (204; market_data.py:129).
cache_and_ingest_holding(st, sym, reinvest) ==
    LET ev == st.hold[sym]
        keys == DatedKeys(ev)
        start == MinKey(keys)
        exs == fetch_dividends(divs, start.d, MaxDay)
        r1 == ingest_dividends_for_holding_range(ev, st.cash, sym, start.d, MaxDay,
                                                 reinvest, divs, prices)
        r2 == ingest_dividends_for_holding_range(r1.ev, r1.cash, sym, start.d, MaxDay,
                                                 reinvest, divs, prices)
    IN  IF ev = <<>> THEN st
        ELSE IF keys = {} \/ ~TimestampParses(start) THEN [st EXCEPT !.err = TRUE]
        ELSE IF exs = <<>> THEN st
        ELSE IF NothingNew(read_dividend_cache(st.cache[sym]), exs) THEN st
        ELSE IF r1.err THEN [st EXCEPT !.err = TRUE]
        ELSE IF ~RunsSecondPass(r1.changes)
             THEN [st EXCEPT !.hold[sym] = r1.ev, !.cash = r1.cash,
                             !.total = @ + r1.changes,
                             !.first[sym] = r1.changes,
                             !.cache[sym] = write_dividend_cache(@, exs)]
        ELSE IF r2.err THEN [st EXCEPT !.err = TRUE, !.first[sym] = r1.changes,
                                       !.cache[sym] = write_dividend_cache(@, exs)]
        ELSE [st EXCEPT !.hold[sym] = r2.ev, !.cash = r2.cash,
                        !.total = @ + r1.changes + r2.changes,
                        !.first[sym] = r1.changes,
                        !.second[sym] = r2.changes,
                        !.cache[sym] = write_dividend_cache(@, exs)]

RECURSIVE CacheAndIngestLoop(_, _, _)
\* for holding in portfolio.holdings (dividends.py:198); an exception ends it
CacheAndIngestLoop(st, syms, reinvest) ==
    IF syms = <<>> \/ st.err THEN st
    ELSE CacheAndIngestLoop(cache_and_ingest_holding(st, Head(syms), reinvest),
                            Tail(syms), reinvest)

\* cache_and_ingest_dividends_for_file on the current portfolio file, whose
\* dividend_reinvest is reinvest
CacheAndIngestResult(reinvest) ==
    CacheAndIngestLoop([hold |-> holdings, cash |-> cash_events, cache |-> divCache,
                        total |-> 0, err |-> FALSE,
                        first |-> [s \in Symbols |-> NotRun],
                        second |-> [s \in Symbols |-> NotRun]],
                       <<SymA, SymAB>>, reinvest)

\* a save after every call that returns
SavesPortfolio_Always(r) == ~r.err

\* dividends.py:223-224: if total_changes: storage.save_portfolio(...)
SavesPortfolio(r) == ~r.err /\ r.total > 0

\* A call of cache_and_ingest_dividends_for_file (dividends.py:194-225): the
\* portfolio is loaded, ingested in memory and saved when anything changed
\* (223-224); a call that raises saves nothing, but the dividend caches it
\* wrote before stay written (219).
CacheAndIngestFile(reinvest) ==
    LET r == CacheAndIngestResult(reinvest)
    IN  /\ holdings' = IF SavesPortfolio(r) THEN r.hold ELSE holdings
        /\ cash_events' = IF SavesPortfolio(r) THEN r.cash ELSE cash_events
        /\ divCache' = r.cache
        /\ UNCHANGED fs
        /\ UNCHANGED <<divs, prices, valueVars, warmVars, workerVars>>

NextIngest ==
    \/ \E start \in Days, end \in Days, reinvest \in BOOLEAN :
          start <= end /\ Ingest(SymA, start, end, reinvest)
    \/ Ingest(SymAB, 1, MaxDay, FALSE)
    \/ \E reinvest \in BOOLEAN : CacheAndIngestFile(reinvest)

SpecIngest == InitIngest /\ [][NextIngest]_vars

\* --------------------------------- the dividend cache file and its writers
\* The file <SYMBOL>_dividends.csv is written by the ingestion of a
\* portfolio file and by fetch_and_cache_symbol, which the worker calls for
\* every symbol at its start and for a prefetch_symbol task.  A cache of a
\* run before may hold dates the provider lists no more (day 1).
CachedChoices ==
    {NoFile,
     [cols |-> CacheColumns, dates |-> {2}],
     [cols |-> CacheColumns, dates |-> {1, 2, MaxDay}]}

InitDivCache ==
    /\ \E evA \in InitialEventLists :
          holdings = [s \in Symbols |->
                        IF s = SymA THEN evA
                        ELSE <<Event(Iso(1), "purchase", 10, 5, 0, NoNote)>>]
    /\ cash_events = <<>>
    /\ divs \in DivChoices
    /\ prices \in PriceChoices
    /\ \E fA \in CachedChoices :
          divCache = [s \in Symbols |-> IF s = SymA THEN fA ELSE NoFile]
    /\ fs = <<>>
    /\ ValuesIdle
    /\ WarmIdle
    /\ WorkerIdle

\* ticker.dividends (prefetch.py:57): the provider's whole series
AllDividends == fetch_dividends(divs, 1, MaxDay)

\* fetch_and_cache_symbol (prefetch.py:47-59): a series that is not empty is
\* saved over <symbol>_dividends.csv by Series.to_csv with header ["value"]
\* (35-36, 58-59): an index column and a value column.  The download may
\* raise before anything is written.  The price file it writes holds the
\* provider's prices, which prices stands for already.
FetchAndCacheSymbol(sym) ==
    /\ \E ok \in BOOLEAN :
          divCache' = IF ok /\ AllDividends # <<>>
                      THEN [divCache EXCEPT ![sym] =
                              [cols |-> PrefetchColumns, dates |-> DaySet(AllDividends)]]
                      ELSE divCache
    /\ UNCHANGED <<holdings, cash_events, divs, prices, fs, valueVars, warmVars, workerVars>>

NextDivCache ==
    \/ \E reinvest \in BOOLEAN : CacheAndIngestFile(reinvest)
    \/ \E sym \in Symbols : FetchAndCacheSymbol(sym)

SpecDivCache == InitDivCache /\ [][NextDivCache]_vars

\* the series cache_and_ingest_dividends_for_file fetches for the holding
\* (dividends.py:202-204), <<>> when it fetches none
FetchedFor(sym) ==
    IF holdings[sym] = <<>> \/ DatedKeys(holdings[sym]) = {} THEN <<>>
    ELSE IF ~TimestampParses(MinKey(DatedKeys(holdings[sym]))) THEN <<>>
    ELSE fetch_dividends(divs, MinKey(DatedKeys(holdings[sym])).d, MaxDay)

\* C26: when the dividend cache of a symbol holds every date of the series
\* fetched for it, a call of cache_and_ingest_dividends_for_file adds no
\* event to the symbol's holding and leaves its dividend cache as it was.
C26_CachedSeriesSkipped ==
    \A s \in Symbols, reinvest \in BOOLEAN :
        (/\ FetchedFor(s) # <<>>
         /\ DaySet(FetchedFor(s)) \subseteq read_dividend_cache(divCache[s]))
        => LET r == CacheAndIngestResult(reinvest)
           IN  r.hold[s] = holdings[s] /\ r.cache[s] = divCache[s]

HasDividend(ev) == \E i \in 1..Len(ev) : ev[i].type = "dividend"

\* the call has run: AB got its dividends and its cache, and A, bought on
\* day 1 with every fetched date in its cache, got none
C26_Witness ==
    /\ HasDividend(holdings[SymAB])
    /\ read_dividend_cache(divCache[SymAB]) # {}
    /\ holdings[SymA] = <<Event(Iso(1), "purchase", 10, 5, 0, NoNote)>>
    /\ FetchedFor(SymA) # <<>>
    /\ DaySet(FetchedFor(SymA)) \subseteq read_dividend_cache(divCache[SymA])

Ran(n) == IF n = NotRun THEN 0 ELSE n

\* C33: in a call of cache_and_ingest_dividends_for_file that returns, the
\* second pass over a holding is run exactly when its first pass added an
\* event, the total returned is the sum of what the passes of all holdings
\* added, and the portfolio file is saved exactly when the total is above 0.
C33_DoublePass ==
    \A reinvest \in BOOLEAN :
        LET r == CacheAndIngestResult(reinvest)
        IN  ~r.err =>
              /\ \A s \in Symbols : r.second[s] # NotRun <=> r.first[s] > 0
              /\ r.total = Ran(r.first[SymA]) + Ran(r.second[SymA])
                            + Ran(r.first[SymAB]) + Ran(r.second[SymAB])
              /\ SavesPortfolio(r) <=> r.total > 0
              /\ SavesPortfolio(r) <=> (r.hold # holdings \/ r.cash # cash_events)

\* the call has run both passes on A and saved: the file holds a DRIP
\* purchase of A, which only a saved call leaves there, and A's cache is
\* written; a call now adds nothing and saves nothing
C33_Witness ==
    /\ \E i \in 1..Len(holdings[SymA]) :
          holdings[SymA][i].type = "purchase" /\ holdings[SymA][i].note = Marker("DRIP", SymA)
    /\ read_dividend_cache(divCache[SymA]) # {}
    /\ CacheAndIngestResult(TRUE).total = 0
    /\ ~CacheAndIngestResult(TRUE).err

\* C27: a write of the dividend cache by ingestion leaves in it the dates it
\* held and the dates fetched, and no step of the worker takes a date out of
\* the dates a symbol's dividend cache holds.
C27_CacheOnlyGrows ==
    [][\A s \in Symbols :
          /\ read_dividend_cache(divCache[s]) \subseteq read_dividend_cache(divCache'[s])
          /\ (divCache'[s] # divCache[s] /\ divCache'[s].cols = CacheColumns)
               => read_dividend_cache(divCache'[s]) =
                    read_dividend_cache(divCache[s]) \cup DaySet(FetchedFor(s))]_vars

\* ------------------------------------------- the DRIP and its price window
\* One holding, 10 shares of A bought on day 1, with the provider's
\* dividends on day 2 and the last day, and a price cache that runs past
\* the window of the last ex-date: at most MaxPriced days of it have a row,
\* with a close of 0 or of 4.
MaxPriced == 2

Horizon == MaxDay + PriceWindowDays + 2

WindowPriceChoices ==
    { [d \in 1..Horizon |-> IF d \in P THEN (IF d \in Z THEN 0 ELSE 4) ELSE NoRow] :
        P \in {Q \in SUBSET (1..Horizon) : Cardinality(Q) <= MaxPriced},
        Z \in SUBSET (1..Horizon) } 

InitDrip ==
    /\ holdings = [s \in Symbols |->
                     IF s = SymA THEN <<Event(Iso(1), "purchase", 10, 5, 0, NoNote)>>
                     ELSE <<>>]
    /\ cash_events = <<>>
    /\ divs \in DivChoices
    /\ prices \in WindowPriceChoices
    /\ divCache = [s \in Symbols |-> NoFile]
    /\ fs = <<>>
    /\ ValuesIdle
    /\ WarmIdle
    /\ WorkerIdle

\* ingest_dividends_for_holding_range over the whole range, with or
\* without reinvestment
NextDrip == \E reinvest \in BOOLEAN : Ingest(SymA, 1, MaxDay, reinvest)

SpecDrip == InitDrip /\ [][NextDrip]_vars

\* ------------------------------- the files between the UI and the worker
\* The UI process and the worker process each hold the portfolio in memory
\* and save it whole.  An event is <<"e", 0>> (in the file from the start),
\* <<"ui", k>> (the k-th event the user adds) or <<"div", k>> (what the k-th
\* ingestion that finds dividends adds).  fs.writes holds, for every file
\* written, the process that wrote it; fs.edits the events the UI saved,
\* fs.reported the events the worker's ingestion counted as added.
MaxIngests == 1
MaxUiEvents == 2

InitShared ==
    /\ fs = [file |-> {<<"e", 0>>}, mtime |-> 0,
             ui |-> {<<"e", 0>>}, last_mtime |-> 0,
             wk |-> {}, wkPc |-> "idle",
             edits |-> {}, reported |-> {}, writes |-> {}]
    /\ holdings = <<>>
    /\ cash_events = <<>>
    /\ divs = <<>>
    /\ prices = <<>>
    /\ divCache = <<>>
    /\ ValuesIdle
    /\ WarmIdle
    /\ WorkerIdle

Wrote(file, by) == [file |-> file, by |-> by]

SharedFrame == UNCHANGED <<holdings, cash_events, divs, prices, divCache, valueVars, warmVars, workerVars>>

\* portfolio_ui.py:784-789: the new-event handler appends the event to the
\* portfolio in memory, marks the symbol dirty and saves the portfolio as it
\* is in memory (storage.py:106-140: the file is rewritten whole)
UiAddEvent ==
    /\ Cardinality(fs.edits) < MaxUiEvents
    /\ LET ev == <<"ui", Cardinality(fs.edits) + 1>>
       IN  fs' = [fs EXCEPT !.ui = @ \cup {ev},
                            !.file = fs.ui \cup {ev},
                            !.mtime = @ + 1,
                            !.edits = @ \cup {ev},
                            !.writes = @ \cup {Wrote("dirty", "ui"),
                                               Wrote("portfolio", "ui")}]
    /\ SharedFrame

\* portfolio_ui.py:1203-1219: every 2 s the UI reloads the portfolio when
\* the file's mtime is past the last one it saw
UiPollForChanges ==
    /\ fs.mtime > fs.last_mtime
    /\ fs' = [fs EXCEPT !.last_mtime = fs.mtime, !.ui = fs.file]
    /\ SharedFrame

\* journal_ui.py:192-199, journal_builder.py:114-119: the journal tab, finding
\* no journal to read, starts a process of its own ("journal-builder") that
\* runs build_journal_csv_streaming
UiRebuildJournal ==
    /\ \A w \in fs.writes : w.file # "journal"
    /\ fs' = [fs EXCEPT !.writes = @ \cup {Wrote("journal", "journal-builder")}]
    /\ SharedFrame

\* dividends.py:195: cache_and_ingest_dividends_for_file loads the portfolio
WorkerLoad ==
    /\ fs.wkPc = "idle"
    /\ Cardinality(fs.reported) < MaxIngests
    /\ fs' = [fs EXCEPT !.wk = fs.file, !.wkPc = "loaded"]
    /\ SharedFrame

\* dividends.py:196-225: the provider is asked, the dividend cache written
\* (219), the events added to the portfolio in memory, and the portfolio
\* saved as it is in memory when anything was added (223-224)
WorkerIngestAndSave ==
    /\ fs.wkPc = "loaded"
    /\ \E added \in BOOLEAN :
          LET ev == <<"div", Cardinality(fs.reported) + 1>>
          IN  fs' = IF added
                    THEN [fs EXCEPT !.wk = @ \cup {ev},
                                    !.file = fs.wk \cup {ev},
                                    !.mtime = @ + 1,
                                    !.reported = @ \cup {ev},
                                    !.wkPc = "idle",
                                    !.writes = @ \cup {Wrote("dividend_cache", "worker"),
                                                       Wrote("portfolio", "worker")}]
                    ELSE [fs EXCEPT !.wkPc = "idle",
                                    !.writes = @ \cup {Wrote("dividend_cache", "worker")}]
    /\ SharedFrame

\* values_cache.py:112-133: warm writes value series and clears dirty marks
WorkerWarm ==
    /\ fs.wkPc = "idle"
    /\ fs' = [fs EXCEPT !.writes = @ \cup {Wrote("values", "worker"),
                                           Wrote("dirty", "worker")}]
    /\ SharedFrame

\* journal_builder.py:23-108, called by the worker (startup_tasks.py:72, 101,
\* 138, 168)
WorkerRebuildJournal ==
    /\ fs.wkPc = "idle"
    /\ fs' = [fs EXCEPT !.writes = @ \cup {Wrote("journal", "worker")}]
    /\ SharedFrame

NextShared ==
    \/ UiAddEvent
    \/ UiPollForChanges
    \/ UiRebuildJournal
    \/ WorkerLoad
    \/ WorkerIngestAndSave
    \/ WorkerWarm
    \/ WorkerRebuildJournal

SpecShared == InitShared /\ [][NextShared]_vars

DerivedFiles == {"values", "dividend_cache", "journal"}

\* C23: the portfolio file is written by the UI process only, and the value
\* series, the dividend cache and the journal by the worker process only.
C23_WriteOwnership ==
    \A w \in fs.writes :
        /\ w.file = "portfolio" => w.by = "ui"
        /\ w.file \in DerivedFiles => w.by = "worker"

\* C30: whenever no ingestion is under way, the portfolio file holds every
\* event the UI saved and every event the worker reported as added.
C30_NoLostUpdate ==
    fs.wkPc = "idle" => (fs.edits \cup fs.reported) \subseteq fs.file

\* -------------------------------------------------------- journal_builder.py
\* The portfolio's symbols, in the order of the file, and each symbol's
\* value series as read_values_cache returns it (sorted by date): at most
\* one row [date, shares, value] per day.  The journal is "absent" or
\* [header, rows], a row being [date, cells], cells[j] the cell of column j.
Blank == 0 - 1

Absent == [shares |-> Blank, value |-> Blank]

RowChoices(s) ==
    IF s = SymA
    THEN {Absent, [shares |-> 0, value |-> 0], [shares |-> 2, value |-> 0],
          [shares |-> 2, value |-> 6]}
    ELSE {Absent, [shares |-> 0, value |-> 0], [shares |-> 3, value |-> 9]}

RECURSIVE SeriesOf(_, _)
SeriesOf(f, d) ==
    IF d > MaxDay THEN <<>>
    ELSE (IF f[d] = Absent THEN <<>>
          ELSE <<[date |-> d, shares |-> f[d].shares, value |-> f[d].value]>>)
         \o SeriesOf(f, d + 1)

CacheChoices(s) == {SeriesOf(f, 1) : f \in [Days -> RowChoices(s)]}

InitJournal ==
    /\ \E symbols \in {<<>>, <<SymA>>, <<SymAB, SymA>>},
          cA \in CacheChoices(SymA), cAB \in CacheChoices(SymAB) :
             jr = [symbols |-> symbols,
                   caches |-> [s \in Symbols |-> IF s = SymA THEN cA ELSE cAB],
                   journal |-> "absent", builds |-> 0]
    /\ vEvents = <<>>
    /\ vPrices = <<>>
    /\ vRows = <<>>
    /\ vResult = "none"
    /\ vStart = <<>>
    /\ vCalls = 0
    /\ mdCall = <<>>
    /\ IngestIdle
    /\ WarmIdle
    /\ WorkerIdle

\* a filter that keeps every row with shares
KeptRows_SharesOnly(rows) == SelectSeq(rows, LAMBDA r : r.shares > 0)

\* journal_builder.py:49-59: rows with shares <= 0 or value <= 0 are dropped
\* from the series before anything else is done with it
KeptRows(rows) == SelectSeq(rows, LAMBDA r : r.shares > 0 /\ r.value > 0)

RowDates(rows) == {rows[i].date : i \in 1..Len(rows)}

\* journal_builder.py:40-43: a symbol whose cache is missing or empty is
\* passed over
Loaded(symbols, caches) ==
    {symbols[i] : i \in {j \in 1..Len(symbols) : caches[symbols[j]] # <<>>}}

\* journal_builder.py:61: the union of the indexes of the filtered series
DateIndex(symbols, caches) ==
    UNION {RowDates(KeptRows(caches[s])) : s \in Loaded(symbols, caches)}

RECURSIVE Ascending(_)
Ascending(S) ==
    IF S = {} THEN <<>>
    ELSE LET m == CHOOSE x \in S : \A y \in S : x <= y
         IN  <<m>> \o Ascending(S \ {m})

\* sorted(symbols) (72): "A" before "AB"
RECURSIVE SortedSymbols(_)
SortedSymbols(symbols) ==
    IF symbols = <<>> THEN <<>>
    ELSE LET S == {symbols[i] : i \in 1..Len(symbols)}
             m == CHOOSE x \in S : \A y \in S : IsPrefix(x, y)
         IN  <<m>> \o SortedSymbols(SelectSeq(symbols, LAMBDA x : x # m))

\* journal_builder.py:85-99: blank when the symbol has no row left on the
\* date, or a row with shares <= 0; else the row's value
JournalCell(symbols, caches, s, d) ==
    LET rows == IF s \in Loaded(symbols, caches) THEN KeptRows(caches[s]) ELSE <<>>
        at == SelectSeq(rows, LAMBDA r : r.date = d)
    IN  IF at = <<>> THEN Blank
        ELSE IF at[1].shares <= 0 THEN Blank
        ELSE at[1].value

\* journal_builder.py:23-108
build_journal_csv_streaming(symbols, caches) ==
    IF symbols = <<>> THEN [header |-> <<>>, rows |-> <<>>]
    ELSE IF Loaded(symbols, caches) = {} THEN [header |-> symbols, rows |-> <<>>]
    ELSE LET hdr == SortedSymbols(symbols)
             ds == Ascending(DateIndex(symbols, caches))
         IN  [header |-> hdr,
              rows |-> [k \in 1..Len(ds) |->
                          [date |-> ds[k],
                           cells |-> [j \in 1..Len(hdr) |->
                                        JournalCell(symbols, caches, hdr[j], ds[k])]]]]

\* a build that opens the journal for append
BuildJournal_Append ==
    /\ jr.builds < MaxCalls
    /\ LET j == build_journal_csv_streaming(jr.symbols, jr.caches)
       IN  jr' = [jr EXCEPT !.builds = @ + 1,
                            !.journal = IF jr.builds = 0 THEN j
                                        ELSE [header |-> j.header,
                                              rows |-> jr.journal.rows \o j.rows]]
    /\ UNCHANGED <<vEvents, vPrices, vRows, vResult, vStart, vCalls, mdCall, ingestVars, warmVars, workerVars>>

\* one call of build_journal_csv_streaming: the journal file is opened with
\* "w" (31, 66, 78) and written whole
BuildJournal ==
    /\ jr.builds < MaxCalls
    /\ jr' = [jr EXCEPT !.builds = @ + 1,
                        !.journal = build_journal_csv_streaming(jr.symbols, jr.caches)]
    /\ UNCHANGED <<vEvents, vPrices, vRows, vResult, vStart, vCalls, mdCall, ingestVars, warmVars, workerVars>>

NextJournal == BuildJournal

SpecJournal == InitJournal /\ [][NextJournal]_vars

JournalBuilt == jr.builds > 0

SymbolSet == {jr.symbols[i] : i \in 1..Len(jr.symbols)}

JournalRowDates == {jr.journal.rows[k].date : k \in 1..Len(jr.journal.rows)}

JournalShape ==
    /\ Len(jr.journal.header) = Len(jr.symbols)
    /\ {jr.journal.header[j] : j \in 1..Len(jr.journal.header)} = SymbolSet
    /\ \A k \in 1..(Len(jr.journal.rows) - 1) :
          jr.journal.rows[k].date < jr.journal.rows[k + 1].date

\* C24 as stated: the journal has one column per symbol and one row, in
\* ascending order of date, for every date of any symbol's value series; a
\* cell holds the value of the symbol's row on the date when that row has
\* shares > 0, and is blank otherwise.
C24_RowPerCachedDate ==
    JournalBuilt =>
        /\ JournalShape
        /\ JournalRowDates = UNION {RowDates(jr.caches[s]) : s \in SymbolSet}
        /\ \A k \in 1..Len(jr.journal.rows), j \in 1..Len(jr.journal.header) :
              LET s == jr.journal.header[j]
                  d == jr.journal.rows[k].date
                  has == \E i \in 1..Len(jr.caches[s]) :
                            jr.caches[s][i].date = d /\ jr.caches[s][i].shares > 0
              IN  IF has
                  THEN \E i \in 1..Len(jr.caches[s]) :
                          /\ jr.caches[s][i].date = d
                          /\ jr.journal.rows[k].cells[j] = jr.caches[s][i].value
                  ELSE jr.journal.rows[k].cells[j] = Blank

\* a row of s on d that counts: shares > 0 and value > 0
Held(s, d) ==
    \E i \in 1..Len(jr.caches[s]) :
        /\ jr.caches[s][i].date = d
        /\ jr.caches[s][i].shares > 0
        /\ jr.caches[s][i].value > 0

\* C24, amended: the journal has one column per symbol and one row, in
\* ascending order of date, for every date on which some symbol has a row
\* with shares > 0 and value > 0, and for no other date; a cell holds the
\* value of the symbol's row on the date when that row has shares > 0 and
\* value > 0, and is blank otherwise.
C24_RowPerHeldDate ==
    JournalBuilt =>
        /\ JournalShape
        /\ JournalRowDates = {d \in Days : \E s \in SymbolSet : Held(s, d)}
        /\ \A k \in 1..Len(jr.journal.rows), j \in 1..Len(jr.journal.header) :
              LET s == jr.journal.header[j]
                  d == jr.journal.rows[k].date
              IN  IF Held(s, d)
                  THEN \E i \in 1..Len(jr.caches[s]) :
                          /\ jr.caches[s][i].date = d
                          /\ jr.journal.rows[k].cells[j] = jr.caches[s][i].value
                  ELSE jr.journal.rows[k].cells[j] = Blank

\* a journal of two columns with a value next to a blank, built from series
\* one of which has a row with shares and no value
C24_Witness ==
    /\ JournalBuilt
    /\ Len(jr.journal.header) = 2
    /\ Len(jr.journal.rows) >= 2
    /\ \E k \in 1..Len(jr.journal.rows) :
          jr.journal.rows[k].cells[1] = Blank /\ jr.journal.rows[k].cells[2] = 9
    /\ \E i \in 1..Len(jr.caches[SymA]) :
          jr.caches[SymA][i].shares = 2 /\ jr.caches[SymA][i].value = 0

MaxClock == 1
MaxEdits == 1

HoldingOrder == <<SymA, SymAB>>

UiIdle == [pc |-> "idle", sym |-> <<>>, new |-> <<>>, buf |-> {}]

WarmReset ==
    [pc |-> "idle", port |-> <<>>, port_mtime |-> 0, dirty |-> {}, todo |-> <<>>,
     changes |-> 0, buf |-> {}, recomputed |-> {}]

Edits == portFile[SymA].ver + portFile[SymAB].ver

InitWarm ==
    /\ clock = 0
    /\ portFile \in [Symbols -> [ver : {0}, dated : BOOLEAN]]
    /\ portMtime = 0
    /\ dirtyFile \in SUBSET Symbols
    /\ \E have \in SUBSET Symbols :
          cacheFile = [s \in Symbols |-> [exists |-> s \in have, mtime |-> 0, ver |-> 0,
                                          rows |-> IF s \in have THEN "rows" ELSE "none"]]
    /\ pricesOk \in {f \in [Symbols -> BOOLEAN] : f[SymAB]}
    /\ ui = UiIdle
    /\ warm = WarmReset
    /\ IngestIdle
    /\ ValuesIdle
    /\ WorkerIdle

\* Time passes.
Tick ==
    /\ clock < MaxClock
    /\ clock' = clock + 1
    /\ UNCHANGED <<portFile, portMtime, dirtyFile, cacheFile, pricesOk, ui, warm, ingestVars, valueVars, workerVars>>

\* portfolio_ui.py:867-893, the edit handler of the events table.  Its first
\* step: mark_symbol_dirty reads the dirty file (values_cache.py:42).
UiMarkRead(s, dated) ==
    /\ ui.pc = "idle"
    /\ Edits < MaxEdits
    /\ ui' = [pc |-> "marking", sym |-> s,
              new |-> [ver |-> portFile[s].ver + 1, dated |-> dated],
              buf |-> dirtyFile]
    /\ UNCHANGED <<clock, portFile, portMtime, dirtyFile, cacheFile, pricesOk, warm, ingestVars, valueVars, workerVars>>

\* mark_symbol_dirty writes the file back with the symbol added
\* (values_cache.py:43-44); the handler then changes the event in memory.
UiMarkWrite ==
    /\ ui.pc = "marking"
    /\ dirtyFile' = ui.buf \cup {ui.sym}
    /\ ui' = [ui EXCEPT !.pc = "saving"]
    /\ UNCHANGED <<clock, portFile, portMtime, cacheFile, pricesOk, warm, ingestVars, valueVars, workerVars>>

\* storage.save_portfolio(portfolio) (portfolio_ui.py:891)
UiSave ==
    /\ ui.pc = "saving"
    /\ portFile' = [portFile EXCEPT ![ui.sym] = ui.new]
    /\ portMtime' = clock
    /\ ui' = UiIdle
    /\ UNCHANGED <<clock, dirtyFile, cacheFile, pricesOk, warm, ingestVars, valueVars, workerVars>>

\* values_cache.py:114: portfolio = storage.load_portfolio(portfolio_path)
WarmLoad ==
    /\ warm.pc = "idle"
    /\ warm' = [WarmReset EXCEPT !.pc = "stat", !.port = portFile,
                                 !.todo = HoldingOrder]
    /\ UNCHANGED <<clock, portFile, portMtime, dirtyFile, cacheFile, pricesOk, ui, ingestVars, valueVars, workerVars>>

\* values_cache.py:116: port_mtime = os.path.getmtime(portfolio_path)
WarmStat ==
    /\ warm.pc = "stat"
    /\ warm' = [warm EXCEPT !.pc = "dirty", !.port_mtime = portMtime]
    /\ UNCHANGED <<clock, portFile, portMtime, dirtyFile, cacheFile, pricesOk, ui, ingestVars, valueVars, workerVars>>

\* values_cache.py:117: dirty = _read_dirty()
WarmReadDirty ==
    /\ warm.pc = "dirty"
    /\ warm' = [warm EXCEPT !.pc = "loop", !.dirty = dirtyFile]
    /\ UNCHANGED <<clock, portFile, portMtime, dirtyFile, cacheFile, pricesOk, ui, ingestVars, valueVars, workerVars>>

\* a guard that recomputes always
NeedsRecompute_Always(s) == s \in Symbols

\* a guard that forgets the dirty set
NeedsRecompute_NoDirty(s) ==
    \/ ~cacheFile[s].exists
    \/ cacheFile[s].mtime < warm.port_mtime

\* values_cache.py:121-123: the cache is missing, stale or marked dirty
NeedsRecompute(s) ==
    \/ ~cacheFile[s].exists
    \/ cacheFile[s].mtime < warm.port_mtime
    \/ s \in warm.dirty

\* a compute that returns true whatever the prices
ComputeOk_Always(s) == s \in Symbols

\* The return value of compute_and_write_values_for_holding for the holding:
\* false when the price history is empty (values_cache.py:76-81), true
\* otherwise (109).  Either way it has written the values file: a header and
\* no row (80), or the rows computed (107).
ComputeOk(s) == pricesOk[s]

\* values_cache.py:118-130: one holding of the loop, up to the call of
\* clear_symbol_dirty
WarmHolding ==
    /\ warm.pc = "loop"
    /\ warm.todo # <<>>
    /\ LET s == Head(warm.todo)
       IN  IF NeedsRecompute(s) /\ warm.port[s].dated
           THEN /\ cacheFile' = [cacheFile EXCEPT ![s] =
                       [exists |-> TRUE, mtime |-> clock, ver |-> warm.port[s].ver,
                        rows |-> IF ComputeOk(s) THEN "rows" ELSE "empty"]]
                /\ warm' = [warm EXCEPT
                       !.pc = "clearing",
                       !.changes = IF ComputeOk(s) THEN @ + 1 ELSE @,
                       !.recomputed = @ \cup {s}]
           ELSE /\ warm' = [warm EXCEPT !.todo = Tail(@)]
                /\ UNCHANGED cacheFile
    /\ UNCHANGED <<clock, portFile, portMtime, dirtyFile, pricesOk, ui, ingestVars, valueVars, workerVars>>

\* values_cache.py:131 and 48: clear_symbol_dirty reads the dirty file
WarmClearRead ==
    /\ warm.pc = "clearing"
    /\ warm' = [warm EXCEPT !.pc = "clearWrite", !.buf = dirtyFile]
    /\ UNCHANGED <<clock, portFile, portMtime, dirtyFile, cacheFile, pricesOk, ui, ingestVars, valueVars, workerVars>>

\* values_cache.py:49-51: and writes it back without the symbol
WarmClearWrite ==
    /\ warm.pc = "clearWrite"
    /\ LET s == Head(warm.todo)
       IN  /\ dirtyFile' = IF s \in warm.buf THEN warm.buf \ {s} ELSE dirtyFile
           /\ warm' = [warm EXCEPT !.pc = "loop", !.todo = Tail(@), !.buf = {}]
    /\ UNCHANGED <<clock, portFile, portMtime, cacheFile, pricesOk, ui, ingestVars, valueVars, workerVars>>

\* values_cache.py:133: return changes
WarmReturn ==
    /\ warm.pc = "loop"
    /\ warm.todo = <<>>
    /\ warm' = [warm EXCEPT !.pc = "returned"]
    /\ UNCHANGED <<clock, portFile, portMtime, dirtyFile, cacheFile, pricesOk, ui, ingestVars, valueVars, workerVars>>

\* the worker goes on; a later task or timer tick calls warm again
\* (startup_tasks.py:98, 136, 167)
WarmAgain ==
    /\ warm.pc = "returned"
    /\ warm' = WarmReset
    /\ UNCHANGED <<clock, portFile, portMtime, dirtyFile, cacheFile, pricesOk, ui, ingestVars, valueVars, workerVars>>

NextWarm ==
    \/ Tick
    \/ \E s \in Symbols, dated \in BOOLEAN : UiMarkRead(s, dated)
    \/ UiMarkWrite
    \/ UiSave
    \/ WarmLoad
    \/ WarmStat
    \/ WarmReadDirty
    \/ WarmHolding
    \/ WarmClearRead
    \/ WarmClearWrite
    \/ WarmReturn
    \/ WarmAgain

SpecWarm == InitWarm /\ [][NextWarm]_vars

\* ------------------------------------------ the worker's task loop
\* startup_tasks.py:82-208.  A task is [type, arg, gw]: arg says whether the
\* symbol of a prefetch_symbol task is given or empty, gw whether the market
\* data provider answers ("ok") or fails ("fail") while the task is handled.
\* A progress message is [type, task], task being the number of the task
\* whose handler sent it, 0 for the timers.  One portfolio file, holding one
\* symbol.
MaxTasks == 2
MaxTimerFires == 1

Task(type, arg, gw) == [type |-> type, arg |-> arg, gw |-> gw]

NoTask == Task("none", "absent", "ok")

TaskPool ==
    { Task("stop", "absent", "ok"),
      Task("warm_values", "absent", "ok"),
      Task("ingest_dividends", "absent", "ok"),
      Task("ingest_dividends", "absent", "fail"),
      Task("prefetch_symbol", "given", "ok"),
      Task("prefetch_symbol", "given", "fail"),
      Task("prefetch_symbol", "empty", "ok"),
      Task("realtime:update_all", "absent", "ok"),
      Task("realtime:update_all", "absent", "fail"),
      Task("unknown", "absent", "ok") }

\* what a handler did: the messages it sent, where the loop goes next, and
\* the calls it made, each [what, ret] with ret what the call returned
\* ("raised" when it raised)
Outcome(msgs, next) == [msgs |-> msgs, next |-> next, calls |-> <<>>]

Call(what, ret) == [what |-> what, ret |-> ret]

Calling(o, cs) == [o EXCEPT !.calls = cs]

RECURSIVE Stamp(_, _)
Stamp(msgs, n) ==
    IF msgs = <<>> THEN <<>>
    ELSE <<[type |-> Head(msgs), task |-> n]>> \o Stamp(Tail(msgs), n)

RECURSIVE StampCalls(_, _)
StampCalls(cs, n) ==
    IF cs = <<>> THEN <<>>
    ELSE <<[what |-> Head(cs).what, ret |-> Head(cs).ret, task |-> n]>>
         \o StampCalls(Tail(cs), n)

InitWorker ==
    /\ taskQ \in SeqsUpTo(TaskPool, MaxTasks)
    /\ progressQ = <<>>
    /\ worker = [pc |-> "recv", task |-> NoTask, n |-> 0, first |-> TRUE, fires |-> 0]
    /\ storeOk \in BOOLEAN
    /\ calls = <<>>
    /\ batch = <<>>
    /\ IngestIdle
    /\ ValuesIdle
    /\ WarmIdle

\* startup_tasks.py:83-91: task = task_q.get(timeout=0.5), None on timeout
Receive ==
    /\ worker.pc = "recv"
    /\ IF taskQ # <<>>
       THEN /\ worker' = [worker EXCEPT !.pc = "maint", !.task = Head(taskQ), !.n = @ + 1]
            /\ taskQ' = Tail(taskQ)
       ELSE /\ worker' = [worker EXCEPT !.pc = "maint", !.task = NoTask]
            /\ UNCHANGED taskQ
    /\ UNCHANGED <<progressQ, storeOk, calls, batch, ingestVars, valueVars, warmVars>>

\* startup_tasks.py:95-105: the maintenance timer.  warm raises when the
\* portfolio does not load, which the loop reports; messages are sent only
\* when warm updated something.
MaintenanceTimer ==
    /\ worker.pc = "maint"
    /\ \E due \in BOOLEAN, updated \in BOOLEAN :
          /\ due => worker.fires < MaxTimerFires
          /\ progressQ' = progressQ \o
                Stamp(IF ~due THEN <<>>
                      ELSE IF ~storeOk THEN <<"maintenance:error">>
                      ELSE IF updated THEN <<"values:warmed", "journal:rebuilt">>
                      ELSE <<>>, 0)
          /\ calls' = calls \o
                StampCalls(IF ~due THEN <<>>
                           ELSE IF ~storeOk THEN <<Call("warm", "raised")>>
                           ELSE IF updated
                                THEN <<Call("warm", "some"), Call("journal", "done")>>
                           ELSE <<Call("warm", "none")>>, 0)
          /\ worker' = [worker EXCEPT !.pc = "realtime",
                                      !.fires = IF due THEN @ + 1 ELSE @]
    /\ UNCHANGED <<taskQ, storeOk, batch, ingestVars, valueVars, warmVars>>

\* startup_tasks.py:108-121: the realtime timer, due on the first iteration
\* (last_realtime = 0.0, line 81).  A failing collect_all_symbols leaves no
\* symbols (109-112); update_realtime_price_cache returns true or false.
RealtimeTimer ==
    /\ worker.pc = "realtime"
    /\ \E due \in BOOLEAN, updated \in BOOLEAN :
          /\ worker.first => due
          /\ (due /\ ~worker.first) => worker.fires < MaxTimerFires
          /\ progressQ' = progressQ \o
                Stamp(IF ~due \/ ~storeOk THEN <<>>
                      ELSE IF updated THEN <<"realtime:updated", "realtime:batch">>
                      ELSE <<"realtime:batch">>, 0)
          /\ calls' = calls \o
                StampCalls(IF ~due THEN <<>>
                           ELSE IF ~storeOk THEN <<Call("collect_all_symbols", "raised")>>
                           ELSE <<Call("collect_all_symbols", "some"),
                                  Call("update_realtime_price_cache",
                                       IF updated THEN "some" ELSE "none")>>, 0)
          /\ worker' = [worker EXCEPT !.pc = "dispatch", !.first = FALSE,
                           !.fires = IF due /\ ~worker.first THEN @ + 1 ELSE @]
    /\ UNCHANGED <<taskQ, storeOk, batch, ingestVars, valueVars, warmVars>>

\* values_cache.py:112: the parameters of warm_values_cache_for_portfolio
WarmParameters == {"portfolio_path"}

\* startup_tasks.py:136: the keywords the warm_values handler passes to it,
\* whatever the task's prefer_cache is (131)
WarmCallKeywords == {"prefer_cache"}

\* startup_tasks.py:129-157: a call with a keyword the function does not take
\* raises TypeError before the function body runs; the handler catches it at
\* 139, reports values:error and goes on to the next path, so that
\* total_updated stays 0.
HandleWarmValues(t, updated) ==
    IF ~(WarmCallKeywords \subseteq WarmParameters)
    THEN Outcome(<<"values:error">>, "recv")
    ELSE IF ~storeOk
    THEN Calling(Outcome(<<"values:error">>, "recv"), <<Call("warm", "raised")>>)
    ELSE IF updated
    THEN Calling(Outcome(<<"values:warmed", "journal:rebuilt", "values:done">>, "recv"),
                 <<Call("warm", "some"), Call("journal", "done")>>)
    ELSE Calling(Outcome(<<"values:warmed", "journal:rebuilt">>, "recv"),
                 <<Call("warm", "none"), Call("journal", "done")>>)

\* a handler that warms and rebuilds whatever the ingestion added
HandleIngestDividends_WarmAlways(t, added) ==
    IF ~storeOk \/ t.gw = "fail"
    THEN Calling(Outcome(<<"dividends:error">>, "recv"), <<Call("ingest", "raised")>>)
    ELSE IF added
    THEN Calling(Outcome(<<"dividends:ingested", "journal:rebuilt", "dividends:done">>, "recv"),
                 <<Call("ingest", "some"), Call("warm", "some"), Call("journal", "done")>>)
    ELSE Calling(Outcome(<<"dividends:ingested", "journal:rebuilt">>, "recv"),
                 <<Call("ingest", "none"), Call("warm", "none"), Call("journal", "done")>>)

\* startup_tasks.py:158-186: cache_and_ingest_dividends_for_file loads the
\* portfolio and calls the provider; what it raises is caught at 169, and
\* the path is then reported by dividends:error alone (170-171).  Values are
\* warmed and the journal rebuilt only when something was added (165-168);
\* journal:rebuilt is sent either way (174).
HandleIngestDividends(t, added) ==
    IF ~storeOk \/ t.gw = "fail"
    THEN Calling(Outcome(<<"dividends:error">>, "recv"), <<Call("ingest", "raised")>>)
    ELSE IF added
    THEN Calling(Outcome(<<"dividends:ingested", "journal:rebuilt", "dividends:done">>, "recv"),
                 <<Call("ingest", "some"), Call("warm", "some"), Call("journal", "done")>>)
    ELSE Calling(Outcome(<<"dividends:ingested", "journal:rebuilt">>, "recv"),
                 <<Call("ingest", "none")>>)

\* a handler that lets the provider's failure through
HandlePrefetchSymbol_Uncaught(t) ==
    IF t.arg = "empty" THEN Outcome(<<>>, "recv")
    ELSE IF t.gw = "fail" THEN Outcome(<<>>, "crashed")
    ELSE Outcome(<<"prefetch:one">>, "recv")

\* startup_tasks.py:187-195
HandlePrefetchSymbol(t) ==
    IF t.arg = "empty" THEN Outcome(<<>>, "recv")
    ELSE IF t.gw = "fail"
    THEN Calling(Outcome(<<"prefetch:error">>, "recv"),
                 <<Call("fetch_and_cache_symbol", "raised")>>)
    ELSE Calling(Outcome(<<"prefetch:one">>, "recv"),
                 <<Call("fetch_and_cache_symbol", "done")>>)

\* startup_tasks.py:196-208: collect_all_symbols (197) is called outside any
\* try and loads every portfolio file (prefetch.py:23-24); fetch_realtime_price
\* answers None when the provider fails (market_data.py:199-221).
HandleRealtimeUpdateAll(t) ==
    IF ~storeOk
    THEN Calling(Outcome(<<>>, "crashed"), <<Call("collect_all_symbols", "raised")>>)
    ELSE IF t.gw = "fail"
    THEN Calling(Outcome(<<>>, "recv"),
                 <<Call("collect_all_symbols", "some"),
                   Call("update_realtime_price_cache", "none")>>)
    ELSE Calling(Outcome(<<"realtime:updated", "realtime:done">>, "recv"),
                 <<Call("collect_all_symbols", "some"),
                   Call("update_realtime_price_cache", "some")>>)

\* a dispatch that reports the task types it does not know
HandleTask_RejectUnknown(t, added) ==
    IF t.type = "none" THEN Outcome(<<>>, "recv")
    ELSE IF t.type = "stop" THEN Outcome(<<"worker:stopping">>, "stopped")
    ELSE IF t.type = "warm_values" THEN HandleWarmValues(t, added)
    ELSE IF t.type = "ingest_dividends" THEN HandleIngestDividends(t, added)
    ELSE IF t.type = "prefetch_symbol" THEN HandlePrefetchSymbol(t)
    ELSE IF t.type = "realtime:update_all" THEN HandleRealtimeUpdateAll(t)
    ELSE Outcome(<<"task:error">>, "recv")

\* a dispatch whose stop sends worker:stopping without leaving the loop
HandleTask_NoBreak(t, added) ==
    IF t.type = "none" THEN Outcome(<<>>, "recv")
    ELSE IF t.type = "stop" THEN Outcome(<<"worker:stopping">>, "recv")
    ELSE IF t.type = "warm_values" THEN HandleWarmValues(t, added)
    ELSE IF t.type = "ingest_dividends" THEN HandleIngestDividends(t, added)
    ELSE IF t.type = "prefetch_symbol" THEN HandlePrefetchSymbol(t)
    ELSE IF t.type = "realtime:update_all" THEN HandleRealtimeUpdateAll(t)
    ELSE Outcome(<<>>, "recv")

\* startup_tasks.py:123-208; added is the count the handler's callee returns
\* (updated for warm_values, added for ingest_dividends) being > 0
HandleTask(t, added) ==
    IF t.type = "none" THEN Outcome(<<>>, "recv")
    ELSE IF t.type = "stop" THEN Outcome(<<"worker:stopping">>, "stopped")
    ELSE IF t.type = "warm_values" THEN HandleWarmValues(t, added)
    ELSE IF t.type = "ingest_dividends" THEN HandleIngestDividends(t, added)
    ELSE IF t.type = "prefetch_symbol" THEN HandlePrefetchSymbol(t)
    ELSE IF t.type = "realtime:update_all" THEN HandleRealtimeUpdateAll(t)
    ELSE Outcome(<<>>, "recv")

Dispatch ==
    /\ worker.pc = "dispatch"
    /\ \E added \in BOOLEAN :
          LET o == HandleTask(worker.task, added)
          IN  /\ progressQ' = progressQ \o Stamp(o.msgs, worker.n)
              /\ calls' = calls \o StampCalls(o.calls, worker.n)
              /\ worker' = [worker EXCEPT !.pc = o.next]
    /\ UNCHANGED <<taskQ, storeOk, batch, ingestVars, valueVars, warmVars>>

NextWorker ==
    \/ Receive
    \/ MaintenanceTimer
    \/ RealtimeTimer
    \/ Dispatch

SpecWorker == InitWorker /\ [][NextWorker]_vars

\* the task loop entered with a queue whose first task meets a failure of
\* the provider
InitWorkerLive ==
    /\ InitWorker
    /\ taskQ # <<>> => taskQ[1].gw = "fail"

\* The worker is a process of its own: its loop keeps being scheduled.
SpecWorkerLive == InitWorkerLive /\ [][NextWorker]_vars /\ WF_vars(NextWorker)

\* ------------------------------------------ the worker from its start
\* startup_tasks.py:24-77, then the task loop above, with the UI putting
\* tasks on the queue while the worker runs.  The startup batches run over
\* the one portfolio file and its one symbol; their messages and calls carry
\* task number 0.
StartupPcs == {"startup:prefetch", "startup:ingest", "startup:warm",
               "startup:journal", "startup:complete"}

\* the tasks the UI puts on the queue in this machine
UiTaskPool ==
    { Task("stop", "absent", "ok"),
      Task("ingest_dividends", "absent", "ok"),
      Task("prefetch_symbol", "given", "fail"),
      Task("unknown", "absent", "ok") }

InitStartup ==
    /\ taskQ = <<>>
    /\ progressQ = <<>>
    /\ worker = [pc |-> "startup:prefetch", task |-> NoTask, n |-> 0,
                 first |-> TRUE, fires |-> 0]
    /\ storeOk \in BOOLEAN
    /\ calls = <<>>
    /\ batch = <<>>
    /\ IngestIdle
    /\ ValuesIdle
    /\ WarmIdle

\* one startup batch: send the messages, log the calls, go on to the next
StartupStep(o) ==
    /\ progressQ' = progressQ \o Stamp(o.msgs, 0)
    /\ calls' = calls \o StampCalls(o.calls, 0)
    /\ worker' = [worker EXCEPT !.pc = o.next]
    /\ UNCHANGED <<taskQ, storeOk, batch, ingestVars, valueVars, warmVars>>

\* a prefetch batch whose collect_all_symbols is called outside the try
PrefetchBatch_Uncaught(gw) ==
    IF ~storeOk
    THEN Calling(Outcome(<<>>, "crashed"), <<Call("collect_all_symbols", "raised")>>)
    ELSE IF gw = "fail"
    THEN Calling(Outcome(<<"prefetch:start", "prefetch:error", "prefetch:progress",
                           "prefetch:done">>, "startup:ingest"),
                 <<Call("collect_all_symbols", "some"),
                   Call("fetch_and_cache_symbol", "raised"),
                   Call("mark_symbol_dirty", "done")>>)
    ELSE Calling(Outcome(<<"prefetch:start", "prefetch:progress", "prefetch:done">>,
                         "startup:ingest"),
                 <<Call("collect_all_symbols", "some"),
                   Call("fetch_and_cache_symbol", "done"),
                   Call("mark_symbol_dirty", "done")>>)

\* startup_tasks.py:24-48: collect_all_symbols loads every portfolio file and
\* raises when one does not load, which is prefetch:fatal (40-41); symbols is
\* then unbound and the marking loop's NameError is swallowed (44-48).  A
\* symbol whose fetch raises is reported and counted as done (32-38).
PrefetchBatch(gw) ==
    IF ~storeOk
    THEN Calling(Outcome(<<"prefetch:fatal">>, "startup:ingest"),
                 <<Call("collect_all_symbols", "raised")>>)
    ELSE IF gw = "fail"
    THEN Calling(Outcome(<<"prefetch:start", "prefetch:error", "prefetch:progress",
                           "prefetch:done">>, "startup:ingest"),
                 <<Call("collect_all_symbols", "some"),
                   Call("fetch_and_cache_symbol", "raised"),
                   Call("mark_symbol_dirty", "done")>>)
    ELSE Calling(Outcome(<<"prefetch:start", "prefetch:progress", "prefetch:done">>,
                         "startup:ingest"),
                 <<Call("collect_all_symbols", "some"),
                   Call("fetch_and_cache_symbol", "done"),
                   Call("mark_symbol_dirty", "done")>>)

StartupPrefetch ==
    /\ worker.pc = "startup:prefetch"
    /\ \E gw \in {"ok", "fail"} : StartupStep(PrefetchBatch(gw))

\* startup_tasks.py:51-57
StartupIngest ==
    /\ worker.pc = "startup:ingest"
    /\ \E gw \in {"ok", "fail"} :
          StartupStep(IF ~storeOk \/ gw = "fail"
                      THEN Calling(Outcome(<<"dividends:error">>, "startup:warm"),
                                   <<Call("ingest", "raised")>>)
                      ELSE Calling(Outcome(<<"dividends:ingested">>, "startup:warm"),
                                   <<Call("ingest", "returned")>>))

\* startup_tasks.py:60-66: here warm_values_cache_for_portfolio is called
\* with the path alone
StartupWarm ==
    /\ worker.pc = "startup:warm"
    /\ StartupStep(IF ~storeOk
                   THEN Calling(Outcome(<<"values:error">>, "startup:journal"),
                                <<Call("warm", "raised")>>)
                   ELSE Calling(Outcome(<<"values:warmed">>, "startup:journal"),
                                <<Call("warm", "returned")>>))

\* startup_tasks.py:69-75: build_journal_csv_streaming loads the portfolio
\* (journal_builder.py:25)
StartupJournal ==
    /\ worker.pc = "startup:journal"
    /\ StartupStep(IF ~storeOk
                   THEN Calling(Outcome(<<"journal:error">>, "startup:complete"),
                                <<Call("journal", "raised")>>)
                   ELSE Calling(Outcome(<<"journal:rebuilt">>, "startup:complete"),
                                <<Call("journal", "done")>>))

\* startup_tasks.py:77-81: startup:complete, then the loop is entered with
\* last_realtime = 0.0
StartupComplete ==
    /\ worker.pc = "startup:complete"
    /\ StartupStep(Outcome(<<"startup:complete">>, "recv"))

\* the UI puts a task on the queue (q.put_nowait), whatever the worker is
\* doing
Enqueue ==
    /\ worker.n + Len(taskQ) < MaxTasks
    /\ \E t \in UiTaskPool : taskQ' = Append(taskQ, t)
    /\ UNCHANGED <<progressQ, worker, storeOk, calls, batch, ingestVars, valueVars, warmVars>>

NextStartup ==
    \/ StartupPrefetch
    \/ StartupIngest
    \/ StartupWarm
    \/ StartupJournal
    \/ StartupComplete
    \/ Enqueue
    \/ Receive
    \/ MaintenanceTimer
    \/ RealtimeTimer
    \/ Dispatch

SpecStartup == InitStartup /\ [][NextStartup]_vars

\* ------------------------------------------ the worker's timers
\* startup_tasks.py:80-124 with the time of day: now is time.time() in
\* seconds since the loop was entered.  Time passes while task_q.get waits
\* and while a handler runs, by one of Durations; what the timer blocks do
\* takes no time here.  A timer that fires is logged in calls with the time
\* it fired at and the number of the task of the iteration.
MaintInterval == 180
RealtimeInterval == 60
MaxNow == 365

Durations == {0, RealtimeInterval + 1, MaintInterval + 1}

\* last_realtime = 0.0 is the epoch (81): long before the loop was entered
Epoch == 0 - (MaintInterval + RealtimeInterval)

InitTimers ==
    /\ taskQ \in SeqsUpTo(UiTaskPool, MaxTasks)
    /\ progressQ = <<>>
    /\ worker = [pc |-> "recv", task |-> NoTask, n |-> 0, now |-> 0,
                 last_maint |-> 0, last_realtime |-> Epoch]
    /\ storeOk = TRUE
    /\ calls = <<>>
    /\ batch = <<>>
    /\ IngestIdle
    /\ ValuesIdle
    /\ WarmIdle

\* a loop that looks at its timers only when no task was received
TimersChecked_OnlyIdle(task) == task = NoTask

\* startup_tasks.py:93-121: the timer blocks come before "if task is None:
\* continue" (123) and the dispatch: they run in every iteration, whatever
\* task_q.get returned
TimersChecked(task) == TRUE

Fired(what) == [what |-> what, ret |-> worker.now, task |-> worker.n]

\* startup_tasks.py:83-94: task_q.get(timeout=0.5), then now = time.time()
TimedReceive ==
    /\ worker.pc = "recv"
    /\ \E d \in Durations :
          /\ worker.now + d <= MaxNow
          /\ IF taskQ # <<>>
             THEN /\ worker' = [worker EXCEPT !.pc = "maint", !.task = Head(taskQ),
                                              !.n = @ + 1, !.now = @ + d]
                  /\ taskQ' = Tail(taskQ)
             ELSE /\ worker' = [worker EXCEPT !.pc = "maint", !.task = NoTask,
                                              !.now = @ + d]
                  /\ UNCHANGED taskQ
    /\ UNCHANGED <<progressQ, storeOk, calls, batch, ingestVars, valueVars, warmVars>>

\* startup_tasks.py:95-105
TimedMaintenance ==
    /\ worker.pc = "maint"
    /\ IF TimersChecked(worker.task) /\ worker.now - worker.last_maint > MaintInterval
       THEN /\ calls' = Append(calls, Fired("maintenance"))
            /\ worker' = [worker EXCEPT !.pc = "realtime", !.last_maint = worker.now]
       ELSE /\ worker' = [worker EXCEPT !.pc = "realtime"]
            /\ UNCHANGED calls
    /\ UNCHANGED <<taskQ, progressQ, storeOk, batch, ingestVars, valueVars, warmVars>>

\* startup_tasks.py:108-121
TimedRealtime ==
    /\ worker.pc = "realtime"
    /\ IF TimersChecked(worker.task) /\ worker.now - worker.last_realtime > RealtimeInterval
       THEN /\ calls' = Append(calls, Fired("realtime"))
            /\ worker' = [worker EXCEPT !.pc = "dispatch", !.last_realtime = worker.now]
       ELSE /\ worker' = [worker EXCEPT !.pc = "dispatch"]
            /\ UNCHANGED calls
    /\ UNCHANGED <<taskQ, progressQ, storeOk, batch, ingestVars, valueVars, warmVars>>

\* startup_tasks.py:123-208: the handler runs for some time and the loop
\* goes where the handler sends it
TimedDispatch ==
    /\ worker.pc = "dispatch"
    /\ \E d \in Durations, added \in BOOLEAN :
          /\ worker.now + d <= MaxNow
          /\ worker.task = NoTask => d = 0
          /\ worker' = [worker EXCEPT !.pc = HandleTask(worker.task, added).next,
                                      !.now = @ + d]
    /\ UNCHANGED <<taskQ, progressQ, storeOk, calls, batch, ingestVars, valueVars, warmVars>>

NextTimers ==
    \/ TimedReceive
    \/ TimedMaintenance
    \/ TimedRealtime
    \/ TimedDispatch

SpecTimers == InitTimers /\ [][NextTimers]_vars

\* C22: when the loop comes to the dispatch of an iteration, a task
\* received or not and tasks waiting or not, no timer is overdue: a timer
\* whose interval had elapsed when the iteration took the time has fired
\* in this iteration.
C22_TimersNotSkipped ==
    worker.pc = "dispatch" =>
        /\ worker.now - worker.last_maint <= MaintInterval
        /\ worker.now - worker.last_realtime <= RealtimeInterval

\* both intervals elapsed while the first task was handled and the second
\* was waiting, and both timers fired in the iteration that took the second
C22_Witness ==
    /\ worker.pc = "dispatch"
    /\ worker.n = 2
    /\ worker.task # NoTask
    /\ \A i \in 1..Len(calls) : calls[i].what = "maintenance" => calls[i].task = 2
    /\ \E i \in 1..Len(calls) : calls[i].what = "maintenance" /\ calls[i].task = 2
    /\ \E i \in 1..Len(calls) : calls[i].what = "realtime" /\ calls[i].task = 2

\* ------------------------------------------ the worker's batches
\* One batch at a time, item by item.  An item is what processing it does:
\* "ok", "empty" (the provider gave nothing: the failure was absorbed below
\* and surfaced as an empty result) or "raises" (an exception reaches the
\* loop).  sent holds the messages [type, item] of the batch, processed the
\* items whose processing was started.
MaxItems == 2

BatchKinds == {"prefetch", "realtime", "warm_paths", "warm_holdings", "ingest_paths"}

\* update_realtime_price_cache raises nothing (market_data.py:199-236); a
\* path is warmed or raises
ItemOutcomes(kind) ==
    IF kind = "realtime" THEN {"ok", "empty"}
    ELSE IF kind = "warm_paths" THEN {"ok", "raises"}
    ELSE {"ok", "empty", "raises"}

InitBatch ==
    /\ \E kind \in BatchKinds :
          \E items \in SeqsUpTo(ItemOutcomes(kind), MaxItems) :
             /\ items # <<>>
             /\ batch = [kind |-> kind, items |-> items, i |-> 1,
                         sent |-> <<>>, processed |-> {}]
    /\ taskQ = <<>>
    /\ progressQ = <<>>
    /\ worker = <<>>
    /\ storeOk = TRUE
    /\ calls = <<>>
    /\ IngestIdle
    /\ ValuesIdle
    /\ WarmIdle

Msg(type, item) == [type |-> type, item |-> item]

\* the loop processes item i, sends msgs and goes on to item next
BatchStep(msgs, next) ==
    /\ batch.i <= Len(batch.items)
    /\ batch' = [batch EXCEPT !.sent = @ \o msgs,
                              !.processed = @ \cup {batch.i},
                              !.i = next]
    /\ UNCHANGED <<taskQ, progressQ, worker, storeOk, calls, ingestVars, valueVars, warmVars>>

Item == batch.items[batch.i]

\* startup_tasks.py:29-38: fetch_and_cache_symbol per symbol, in a try
PrefetchItem ==
    /\ batch.kind = "prefetch"
    /\ BatchStep(
              IF Item = "raises" THEN <<Msg("prefetch:error", batch.i)>> ELSE <<>>,
              batch.i + 1)

\* startup_tasks.py:113-118, 199-205: update_realtime_price_cache per symbol,
\* in a try; it answers False when the provider gave no price
RealtimeItem ==
    /\ batch.kind = "realtime"
    /\ BatchStep(
              IF Item = "raises" THEN <<Msg("realtime:error", batch.i)>>
              ELSE IF Item = "ok" THEN <<Msg("realtime:updated", batch.i)>>
              ELSE <<>>,
              batch.i + 1)

\* startup_tasks.py:60-66: warm_values_cache_for_portfolio per path, in a try
WarmPathItem ==
    /\ batch.kind = "warm_paths"
    /\ BatchStep(
              IF Item = "raises" THEN <<Msg("values:error", batch.i)>>
              ELSE <<Msg("values:warmed", batch.i)>>,
              batch.i + 1)

\* values_cache.py:118-131: the loop over the holdings has no try: what
\* compute_and_write_values_for_holding or clear_symbol_dirty raises leaves
\* the loop and the function.  The exception reaches the caller's try,
\* which reports the path (startup_tasks.py:65-66), item 0 here.
WarmHoldingItem ==
    /\ batch.kind = "warm_holdings"
    /\ BatchStep(
              IF Item = "raises" THEN <<Msg("values:error", 0)>> ELSE <<>>,
              IF Item = "raises" THEN Len(batch.items) + 1 ELSE batch.i + 1)

\* startup_tasks.py:51-57: cache_and_ingest_dividends_for_file per path, in
\* a try
IngestPathItem ==
    /\ batch.kind = "ingest_paths"
    /\ BatchStep(
              IF Item = "raises" THEN <<Msg("dividends:error", batch.i)>>
              ELSE <<Msg("dividends:ingested", batch.i)>>,
              batch.i + 1)

NextBatch ==
    \/ PrefetchItem
    \/ RealtimeItem
    \/ WarmPathItem
    \/ WarmHoldingItem
    \/ IngestPathItem

SpecBatch == InitBatch /\ [][NextBatch]_vars

\* ------------------------------------------ the worker's startup run
\* startup_tasks.py:24-77 over the symbols and the portfolio paths of the
\* data directory: collect_all_symbols answers or raises; each symbol's
\* fetch, and each path's ingestion, warm and journal build, returns or
\* raises.  sent is what was sent, [type, item], item being the number of
\* the symbol or of the path, 0 for a message that names neither; log is
\* the calls that returned, in order.  collect_all_symbols raises when a
\* portfolio file does not load (prefetch.py:23-24), and then so do the
\* three steps of that path, which load it too (dividends.py:195,
\* values_cache.py:114, journal_builder.py:25).
StepOutcomes == {"ok", "raises"}

PathOutcomes == [ingest : StepOutcomes, warm : StepOutcomes, journal : StepOutcomes]

InitRun ==
    /\ \E collect \in StepOutcomes :
          \E symbols \in SeqsUpTo(StepOutcomes, MaxItems),
             paths \in SeqsUpTo(PathOutcomes, MaxItems) :
             /\ collect = "raises" => symbols = <<>>
             /\ collect = "raises" =>
                   \E p \in 1..Len(paths) :
                      paths[p] = [ingest |-> "raises", warm |-> "raises",
                                  journal |-> "raises"]
             /\ batch = [pc |-> "collect", i |-> 1, collect |-> collect,
                         symbols |-> symbols, paths |-> paths,
                         sent |-> <<>>, log |-> <<>>]
    /\ taskQ = <<>>
    /\ progressQ = <<>>
    /\ worker = <<>>
    /\ storeOk = TRUE
    /\ calls = <<>>
    /\ IngestIdle
    /\ ValuesIdle
    /\ WarmIdle

RunFrame == UNCHANGED <<taskQ, progressQ, worker, storeOk, calls, ingestVars, valueVars, warmVars>>

Did(what, item) == [what |-> what, item |-> item]

\* a loop whose try is around the for: what one path raises ends the loop
NextPath_TryOutside(outcome, i, n) == IF outcome = "raises" THEN n + 1 ELSE i + 1

\* startup_tasks.py:51-57, 60-66, 69-75: the try is inside the for, so the
\* loop goes on to the next path whatever this one did
NextPath(outcome, i, n) == i + 1

\* startup_tasks.py:25-28, 40-41: collect_all_symbols, then prefetch:start;
\* what it raises is caught by the outer try, which sends prefetch:fatal
RunCollect ==
    /\ batch.pc = "collect"
    /\ batch' = IF batch.collect = "raises"
                THEN [batch EXCEPT !.pc = "mark",
                                   !.sent = Append(@, Msg("prefetch:fatal", 0))]
                ELSE [batch EXCEPT !.pc = "fetch", !.i = 1,
                                   !.sent = Append(@, Msg("prefetch:start", 0)),
                                   !.log = Append(@, Did("collect_all_symbols", 0))]
    /\ RunFrame

\* startup_tasks.py:29-38: one symbol; prefetch:progress after the last
\* symbol and after every fifth
RunFetch ==
    /\ batch.pc = "fetch"
    /\ batch.i <= Len(batch.symbols)
    /\ batch' = [batch EXCEPT
          !.i = @ + 1,
          !.sent = @ \o (IF batch.symbols[batch.i] = "raises"
                         THEN <<Msg("prefetch:error", batch.i)>> ELSE <<>>)
                     \o (IF batch.i = Len(batch.symbols) \/ batch.i % 5 = 0
                         THEN <<Msg("prefetch:progress", batch.i)>> ELSE <<>>),
          !.log = @ \o (IF batch.symbols[batch.i] = "ok"
                        THEN <<Did("fetch_and_cache_symbol", batch.i)>> ELSE <<>>)]
    /\ RunFrame

\* startup_tasks.py:39
RunPrefetchDone ==
    /\ batch.pc = "fetch"
    /\ batch.i > Len(batch.symbols)
    /\ batch' = [batch EXCEPT !.pc = "mark", !.sent = Append(@, Msg("prefetch:done", 0))]
    /\ RunFrame

RECURSIVE Marks(_)
Marks(n) == IF n = 0 THEN <<>> ELSE Append(Marks(n - 1), Did("mark_symbol_dirty", n))

\* startup_tasks.py:43-48: every symbol collected is marked dirty; after a
\* collect that raised, symbols is unbound and the NameError is swallowed
RunMark ==
    /\ batch.pc = "mark"
    /\ batch' = [batch EXCEPT !.pc = "ingest", !.i = 1,
                              !.log = @ \o (IF batch.collect = "ok"
                                            THEN Marks(Len(batch.symbols)) ELSE <<>>)]
    /\ RunFrame

\* one pass of a loop over the paths: the call of path i returns and its
\* message is sent, or raises and the error is sent
PathStep(step, call, okMsg, errMsg, nextPc) ==
    IF batch.i > Len(batch.paths)
    THEN [batch EXCEPT !.pc = nextPc, !.i = 1]
    ELSE LET outcome == batch.paths[batch.i][step]
         IN  [batch EXCEPT
                !.i = NextPath(outcome, batch.i, Len(batch.paths)),
                !.sent = Append(@, Msg(IF outcome = "ok" THEN okMsg ELSE errMsg, batch.i)),
                !.log = @ \o (IF outcome = "ok" THEN <<Did(call, batch.i)>> ELSE <<>>)]

\* startup_tasks.py:51-57
RunIngest ==
    /\ batch.pc = "ingest"
    /\ batch' = PathStep("ingest", "cache_and_ingest_dividends_for_file",
                         "dividends:ingested", "dividends:error", "warm")
    /\ RunFrame

\* startup_tasks.py:60-66
RunWarm ==
    /\ batch.pc = "warm"
    /\ batch' = PathStep("warm", "warm_values_cache_for_portfolio",
                         "values:warmed", "values:error", "journal")
    /\ RunFrame

\* startup_tasks.py:69-75
RunJournal ==
    /\ batch.pc = "journal"
    /\ batch' = PathStep("journal", "build_journal_csv_streaming",
                         "journal:rebuilt", "journal:error", "complete")
    /\ RunFrame

\* startup_tasks.py:77
RunComplete ==
    /\ batch.pc = "complete"
    /\ batch' = [batch EXCEPT !.pc = "loop", !.sent = Append(@, Msg("startup:complete", 0))]
    /\ RunFrame

NextRun ==
    \/ RunCollect
    \/ RunFetch
    \/ RunPrefetchDone
    \/ RunMark
    \/ RunIngest
    \/ RunWarm
    \/ RunJournal
    \/ RunComplete

SpecRun == InitRun /\ [][NextRun]_vars

PrefetchTypes == {"prefetch:start", "prefetch:progress", "prefetch:error",
                  "prefetch:done", "prefetch:fatal"}

\* the messages up to position d are prefetch:start, then progress and
\* error messages, then prefetch:done
PrefetchInOrder(s, d) ==
    /\ d >= 2
    /\ s[1].type = "prefetch:start"
    /\ s[d].type = "prefetch:done"
    /\ \A k \in 2..(d - 1) : s[k].type \in {"prefetch:progress", "prefetch:error"}

\* after position d: for every path its ingestion message, then its warm
\* message, then its journal message, whatever each step did; no prefetch
\* message; startup:complete last and only there
PathsInOrder(s, d, n) ==
    /\ \A k \in (d + 1)..Len(s) : s[k].type \notin PrefetchTypes
    /\ \A p \in 1..n :
          \E a, b, c \in (d + 1)..Len(s) :
             /\ a < b /\ b < c
             /\ s[a].item = p /\ s[a].type \in {"dividends:ingested", "dividends:error"}
             /\ s[b].item = p /\ s[b].type \in {"values:warmed", "values:error"}
             /\ s[c].item = p /\ s[c].type \in {"journal:rebuilt", "journal:error"}
    /\ s[Len(s)].type = "startup:complete"
    /\ \A k \in 1..(Len(s) - 1) : s[k].type # "startup:complete"

\* C32 as stated: the messages of a startup are prefetch:start, the
\* prefetch:progress and prefetch:error messages, prefetch:done, then for
\* every path its dividends message before its values message before its
\* journal message, and startup:complete after them all, whatever step
\* failed.
C32_StartupOrder ==
    batch.pc = "loop" =>
        \E d \in 1..Len(batch.sent) :
            /\ PrefetchInOrder(batch.sent, d)
            /\ PathsInOrder(batch.sent, d, Len(batch.paths))

\* C32, amended: the same, or, when collecting the symbols fails, the one
\* message prefetch:fatal in the place of the prefetch messages.
C32_StartupOrderOrFatal ==
    batch.pc = "loop" =>
        \E d \in 1..Len(batch.sent) :
            /\ \/ PrefetchInOrder(batch.sent, d)
               \/ d = 1 /\ batch.sent[1].type = "prefetch:fatal" /\ batch.collect = "raises"
            /\ PathsInOrder(batch.sent, d, Len(batch.paths))

\* a startup over two symbols and two paths has completed: a fetch raised,
\* the ingestion of the first path raised and its warm did not, the warm of
\* the second path raised and its journal was built
C32_Witness ==
    /\ batch.pc = "loop"
    /\ batch.symbols = <<"raises", "ok">>
    /\ Len(batch.paths) = 2
    /\ batch.paths[1].ingest = "raises" /\ batch.paths[1].warm = "ok"
    /\ batch.paths[2].warm = "raises" /\ batch.paths[2].journal = "ok"
    /\ \E k \in 1..Len(batch.sent) : batch.sent[k] = Msg("values:warmed", 1)
    /\ \E k \in 1..Len(batch.sent) : batch.sent[k] = Msg("journal:rebuilt", 2)

\* ------------------------------------------ the worker's maintenance tick
\* startup_tasks.py:80-105 over the portfolio paths of the data directory,
\* path by path, with the time of day.  clock is the time of day in seconds
\* since the loop was entered; it advances while task_q.get waits, while a
\* path is warmed and while the rest of the iteration runs.  now and
\* last_maint are the loop's variables.  sent holds the messages
\* [type, item, tick] and log the calls [what, item, ret, tick] of the
\* ticks, item being the number of the path; ticks holds the value of now
\* of each tick.  The journal build of a path is reached only when its warm
\* returned updated > 0, so its outcome is told apart only then.
TickOutcomes ==
    {o \in [warm : StepOutcomes, updated : 0..1, journal : StepOutcomes] :
        /\ o.warm = "raises" => o.updated = 0
        /\ o.updated = 0 => o.journal = "ok"}

\* last_maint = time.time() when the loop is entered (80)
InitMaint ==
    /\ batch = [pc |-> "recv", clock |-> 0, now |-> 0, last_maint |-> 0,
                i |-> 0, paths |-> <<>>, sent |-> <<>>, log |-> <<>>,
                ticks |-> <<>>]
    /\ taskQ = <<>>
    /\ progressQ = <<>>
    /\ worker = <<>>
    /\ storeOk = TRUE
    /\ calls = <<>>
    /\ IngestIdle
    /\ ValuesIdle
    /\ WarmIdle

MaintFrame ==
    UNCHANGED <<taskQ, progressQ, worker, storeOk, calls, ingestVars, valueVars, warmVars>>

TickMsg(type, item) == [type |-> type, item |-> item, tick |-> Len(batch.ticks)]

TickCall(what, item, ret) ==
    [what |-> what, item |-> item, ret |-> ret, tick |-> Len(batch.ticks)]

\* a tick that reports and rebuilds whatever warm returned
ReportsTick_Always(updated) == TRUE

\* startup_tasks.py:99: if updated
ReportsTick(updated) == updated > 0

\* a comparison that lets the timer fire when the interval has just elapsed
MaintDue_AtInterval(now, last_maint) == now - last_maint >= MaintInterval

\* startup_tasks.py:95: if now - last_maint > 180
MaintDue(now, last_maint) == now - last_maint > MaintInterval

\* startup_tasks.py:83-94: task_q.get(timeout=0.5) waits, then
\* now = time.time()
MaintWait ==
    /\ batch.pc = "recv"
    /\ \E d \in Durations \cup {MaintInterval} :
          /\ batch.clock + d <= MaxNow
          /\ batch' = [batch EXCEPT !.pc = "maint", !.clock = @ + d,
                                    !.now = batch.clock + d]
    /\ MaintFrame

\* startup_tasks.py:95-96: when the timer is due, the paths are listed; each
\* path's warm and journal build will return or raise
MaintCheck ==
    /\ batch.pc = "maint"
    /\ IF MaintDue(batch.now, batch.last_maint)
       THEN \E paths \in SeqsUpTo(TickOutcomes, MaxItems) :
               batch' = [batch EXCEPT !.pc = "path", !.i = 1, !.paths = paths,
                                      !.ticks = Append(@, batch.now)]
       ELSE batch' = [batch EXCEPT !.pc = "rest"]
    /\ MaintFrame

\* startup_tasks.py:96-104: one path of the tick, which takes some time
MaintPath ==
    /\ batch.pc = "path"
    /\ batch.i <= Len(batch.paths)
    /\ \E d \in {0, 1} :
          LET o == batch.paths[batch.i]
              i == batch.i
          IN  /\ batch.clock + d <= MaxNow
              /\ batch' =
                   [batch EXCEPT
                      !.i = @ + 1,
                      !.clock = @ + d,
                      !.log = @ \o
                         (IF o.warm = "raises"
                          THEN <<TickCall("warm_values_cache_for_portfolio", i, "raised")>>
                          ELSE IF ~ReportsTick(o.updated)
                          THEN <<TickCall("warm_values_cache_for_portfolio", i, "returned")>>
                          ELSE <<TickCall("warm_values_cache_for_portfolio", i, "returned"),
                                 TickCall("build_journal_csv_streaming", i,
                                          IF o.journal = "raises" THEN "raised"
                                          ELSE "returned")>>),
                      !.sent = @ \o
                         (IF o.warm = "raises"
                          THEN <<TickMsg("maintenance:error", i)>>
                          ELSE IF ~ReportsTick(o.updated) THEN <<>>
                          ELSE IF o.journal = "raises"
                          THEN <<TickMsg("values:warmed", i),
                                 TickMsg("maintenance:error", i)>>
                          ELSE <<TickMsg("values:warmed", i),
                                 TickMsg("journal:rebuilt", i)>>)]
    /\ MaintFrame

\* startup_tasks.py:105: last_maint = now, after the last path
MaintEnd ==
    /\ batch.pc = "path"
    /\ batch.i > Len(batch.paths)
    /\ batch' = [batch EXCEPT !.pc = "rest", !.last_maint = batch.now]
    /\ MaintFrame

\* startup_tasks.py:107-208: the rest of the iteration takes some time
MaintRest ==
    /\ batch.pc = "rest"
    /\ \E d \in Durations :
          /\ batch.clock + d <= MaxNow
          /\ batch' = [batch EXCEPT !.pc = "recv", !.clock = @ + d]
    /\ MaintFrame

NextMaint ==
    \/ MaintWait
    \/ MaintCheck
    \/ MaintPath
    \/ MaintEnd
    \/ MaintRest

SpecMaint == InitMaint /\ [][NextMaint]_vars

\* the messages of type type sent for path i in tick t
TickSent(type, i, t) ==
    {k \in 1..Len(batch.sent) : batch.sent[k] = [type |-> type, item |-> i, tick |-> t]}

\* the calls of what made for path i in tick t
TickCalls(what, i, t) ==
    {k \in 1..Len(batch.log) :
        /\ batch.log[k].what = what
        /\ batch.log[k].item = i
        /\ batch.log[k].tick = t}

\* C37: when the maintenance timer has fired and the tick is over, warm was
\* run for every portfolio path, and for each path the journal was rebuilt
\* and values:warmed and journal:rebuilt were sent only if the warm of that
\* path returned updated > 0; and the timer fires again only when more than
\* 180 s of clock time have passed since this tick.
C37_MaintenanceTick ==
    /\ (batch.pc = "rest" /\ batch.ticks # <<>> /\ batch.last_maint = batch.now) =>
          \A i \in 1..Len(batch.paths) :
             LET t == Len(batch.ticks)
                 updated == batch.paths[i].warm = "ok" /\ batch.paths[i].updated > 0
             IN  /\ Cardinality(TickCalls("warm_values_cache_for_portfolio", i, t)) = 1
                 /\ TickCalls("build_journal_csv_streaming", i, t) # {} => updated
                 /\ TickSent("values:warmed", i, t) # {} => updated
                 /\ TickSent("journal:rebuilt", i, t) # {} => updated
    /\ \A k \in 2..Len(batch.ticks) :
          batch.ticks[k] - batch.ticks[k - 1] > MaintInterval

\* the second tick is over: in the first, path 1 was updated and rebuilt and
\* path 2, not updated, sent nothing; the ticks are more than 180 s apart
C37_Witness ==
    /\ batch.pc = "rest"
    /\ Len(batch.ticks) = 2
    /\ batch.last_maint = batch.now
    /\ TickSent("values:warmed", 1, 1) # {}
    /\ TickSent("journal:rebuilt", 1, 1) # {}
    /\ TickCalls("build_journal_csv_streaming", 1, 1) # {}
    /\ TickCalls("warm_values_cache_for_portfolio", 2, 1) # {}
    /\ TickCalls("build_journal_csv_streaming", 2, 1) = {}
    /\ \A k \in 1..Len(batch.sent) : batch.sent[k].tick = 1 => batch.sent[k].item = 1

\* ------------------------------------ the startup's dirty marks and warm
\* startup_tasks.py:24-66 without the UI beside it, over two portfolio files
\* of the data directory.  portFile[i] is file i: whether it loads, and for
\* each symbol whether the file has a holding of it, with or without a dated
\* event; portMtime[i] is its modification time.  cacheFile[s] is the values
\* file of symbol s, dirtyFile the dirty-set file.  warm is the position of
\* the startup and the holdings [path, sym] that the startup warm
\* recomputed.  The files are older than the worker's start; the startup
\* writes at SaveTime (ingestion) and at WarmTime (warm).
PortfolioFiles == <<"first", "second">>

HoldingKinds == {"none", "undated", "dated"}

SaveTime == MaxClock + 1
WarmTime == MaxClock + 2

InitFresh ==
    /\ clock = 0
    /\ portFile \in
          [1..Len(PortfolioFiles) ->
              {f \in [loads : BOOLEAN, hold : [Symbols -> HoldingKinds]] :
                  ~f.loads => \A s \in Symbols : f.hold[s] = "none"}]
    /\ \E t \in 0..MaxClock : portMtime = [i \in 1..Len(PortfolioFiles) |-> t]
    /\ dirtyFile \in SUBSET Symbols
    /\ cacheFile \in [Symbols -> {[exists |-> FALSE, mtime |-> 0]}
                                    \cup [exists : {TRUE}, mtime : 0..MaxClock]]
    /\ pricesOk = <<>>
    /\ ui = <<>>
    /\ warm = [pc |-> "mark", i |-> 1, recomputed |-> {}]
    /\ IngestIdle
    /\ ValuesIdle
    /\ WorkerIdle

FreshFrame == UNCHANGED <<clock, pricesOk, ui, ingestVars, valueVars, workerVars>>

\* prefetch.collect_all_symbols (prefetch.py:21-28): the symbols of the
\* holdings of every file
AllSymbols ==
    {s \in Symbols : \E i \in 1..Len(PortfolioFiles) : portFile[i].hold[s] # "none"}

\* startup_tasks.py:25-48: collect_all_symbols raises when a file does not
\* load; symbols is then unbound and the marking loop, in its try, marks
\* nothing
MarkedAtStart ==
    IF \A i \in 1..Len(PortfolioFiles) : portFile[i].loads THEN AllSymbols ELSE {}

\* startup_tasks.py:24-48: the prefetch and the marking
FreshMark ==
    /\ warm.pc = "mark"
    /\ dirtyFile' = dirtyFile \cup MarkedAtStart
    /\ warm' = [warm EXCEPT !.pc = "ingest", !.i = 1]
    /\ UNCHANGED <<portFile, portMtime, cacheFile>>
    /\ FreshFrame

\* startup_tasks.py:51-57: the ingestion of file i saves the file when it
\* added events (dividends.py:223-224); a file that does not load raises
FreshIngest ==
    /\ warm.pc = "ingest"
    /\ warm.i <= Len(PortfolioFiles)
    /\ \E saved \in BOOLEAN :
          /\ saved => portFile[warm.i].loads
          /\ portMtime' = IF saved THEN [portMtime EXCEPT ![warm.i] = SaveTime]
                          ELSE portMtime
    /\ warm' = [warm EXCEPT !.i = @ + 1]
    /\ UNCHANGED <<portFile, dirtyFile, cacheFile>>
    /\ FreshFrame

FreshIngested ==
    /\ warm.pc = "ingest"
    /\ warm.i > Len(PortfolioFiles)
    /\ warm' = [warm EXCEPT !.pc = "warm", !.i = 1]
    /\ UNCHANGED <<portFile, portMtime, dirtyFile, cacheFile>>
    /\ FreshFrame

RECURSIVE WarmFile(_, _, _, _)
\* values_cache.py:118-131, the loop over the holdings todo of file i, dirty
\* being what was read at 117; st = [cache, dirtyFile, recomputed]
WarmFile(st, i, dirty, todo) ==
    IF todo = <<>> THEN st
    ELSE LET s == Head(todo)
             needs == \/ ~st.cache[s].exists
                      \/ st.cache[s].mtime < portMtime[i]
                      \/ s \in dirty
         IN  IF portFile[i].hold[s] = "none" THEN WarmFile(st, i, dirty, Tail(todo))
             ELSE IF ~needs \/ portFile[i].hold[s] = "undated"
                  THEN WarmFile(st, i, dirty, Tail(todo))
             ELSE WarmFile([cache |-> [st.cache EXCEPT ![s] =
                                         [exists |-> TRUE, mtime |-> WarmTime]],
                            dirtyFile |-> st.dirtyFile \ {s},
                            recomputed |-> st.recomputed \cup {<<i, s>>}],
                           i, dirty, Tail(todo))

\* startup_tasks.py:60-66: warm_values_cache_for_portfolio of file i; it
\* raises when the file does not load (values_cache.py:114)
FreshWarm ==
    /\ warm.pc = "warm"
    /\ warm.i <= Len(PortfolioFiles)
    /\ LET r == IF portFile[warm.i].loads
                THEN WarmFile([cache |-> cacheFile, dirtyFile |-> dirtyFile,
                               recomputed |-> warm.recomputed],
                              warm.i, dirtyFile, HoldingOrder)
                ELSE [cache |-> cacheFile, dirtyFile |-> dirtyFile,
                      recomputed |-> warm.recomputed]
       IN  /\ cacheFile' = r.cache
           /\ dirtyFile' = r.dirtyFile
           /\ warm' = [warm EXCEPT !.i = @ + 1, !.recomputed = r.recomputed]
    /\ UNCHANGED <<portFile, portMtime>>
    /\ FreshFrame

\* startup_tasks.py:69-77: the journals, then startup:complete
FreshComplete ==
    /\ warm.pc = "warm"
    /\ warm.i > Len(PortfolioFiles)
    /\ warm' = [warm EXCEPT !.pc = "complete"]
    /\ UNCHANGED <<portFile, portMtime, dirtyFile, cacheFile>>
    /\ FreshFrame

NextFresh ==
    \/ FreshMark
    \/ FreshIngest
    \/ FreshIngested
    \/ FreshWarm
    \/ FreshComplete

SpecFresh == InitFresh /\ [][NextFresh]_vars

\* C39: every worker start recomputes everything: when the startup is
\* complete, every holding with a dated event, of every portfolio file that
\* loads, was recomputed by the startup warm, whatever the modification
\* times of the values files and of the portfolio files, and no symbol of
\* such a holding is in the dirty set.
C39_StartRecomputesAll ==
    warm.pc = "complete" =>
        \A i \in 1..Len(PortfolioFiles), s \in Symbols :
            (portFile[i].loads /\ portFile[i].hold[s] = "dated") =>
                /\ <<i, s>> \in warm.recomputed
                /\ s \notin dirtyFile

\* ------------------------------------------------- ingestion: the claims
IngestArgs ==
    {a \in [sym : Symbols, start : Days, end : Days, reinvest : BOOLEAN] :
        a.start <= a.end}

FirstCall(a) == IngestResult(a.sym, a.start, a.end, a.reinvest)

\* the same call again, on what the first call left
SecondCall(a) ==
    LET r == FirstCall(a)
    IN  ingest_dividends_for_holding_range(r.ev, r.cash, a.sym, a.start, a.end,
                                           a.reinvest, divs, prices)

CountEvents(events, type, note, day) ==
    Cardinality({i \in 1..Len(events) :
        /\ events[i].type = type
        /\ events[i].note = note
        /\ NormalizeDate(events[i].date) = Iso(day)})

\* C1: ingestion is idempotent: in every portfolio state, for every holding,
\* date range and reinvest setting, a second call with the same inputs and
\* the same provider series returns 0 and appends no event to holding.events
\* or portfolio.cash_events.
C1_IngestIdempotent ==
    \A a \in IngestArgs :
        LET r1 == FirstCall(a)
            r2 == SecondCall(a)
        IN  ~r1.err => /\ ~r2.err
                       /\ r2.changes = 0
                       /\ r2.ev = r1.ev
                       /\ r2.cash = r1.cash

\* a portfolio on which a reinvesting call adds events for both ex-dates,
\* after earlier calls have already posted cash dividends
C1_Witness ==
    /\ cash_events # <<>>
    /\ \E a \in IngestArgs :
          /\ a.reinvest
          /\ ~FirstCall(a).err
          /\ FirstCall(a).changes >= 3
          /\ \E i \in 1..Len(FirstCall(a).ev) :
                FirstCall(a).ev[i].note = Marker("DRIP", a.sym)

\* C2: no duplicate marker events: in every state reached by any sequence of
\* ingestion calls, for each symbol and each date there is at most one
\* DIV:<SYMBOL> dividend event in the holding's events, at most one
\* DIV:<SYMBOL> dividend event in portfolio.cash_events and at most one
\* DRIP:<SYMBOL> purchase event in the holding's events.
C2_NoDuplicateMarkers ==
    \A sym \in Symbols, day \in Days :
        /\ CountEvents(holdings[sym], "dividend", Marker("DIV", sym), day) <= 1
        /\ CountEvents(cash_events, "dividend", Marker("DIV", sym), day) <= 1
        /\ CountEvents(holdings[sym], "purchase", Marker("DRIP", sym), day) <= 1

\* all three kinds of marker event exist for A on day 2, and a further call
\* over that day is possible
C2_Witness ==
    /\ CountEvents(holdings[SymA], "dividend", Marker("DIV", SymA), 2) = 1
    /\ CountEvents(cash_events, "dividend", Marker("DIV", SymA), 2) = 1
    /\ CountEvents(holdings[SymA], "purchase", Marker("DRIP", SymA), 2) = 1
    /\ CountEvents(holdings[SymA], "dividend", Marker("DIV", SymA), MaxDay) = 1

\* The shares owned on a day, from the definition: the signed sum of the
\* purchases and sales dated on or before the day, not below 0.
OwnedOn(events, day) ==
    Max(0, SumOver(events, {i \in 1..Len(events) :
                               /\ NormalizeDate(events[i].date).fmt = "iso"
                               /\ NormalizeDate(events[i].date).d <= day}))

ExDatesIn(start, end) == {d \in Days : start <= d /\ d <= end /\ divs[d] # NoRow}

Payable(sym, day) ==
    OwnedOn(holdings[sym], day) > 0 /\ divs[day] * OwnedOn(holdings[sym], day) # 0

\* eligible: payable, and not yet ingested (no DIV:<SYMBOL> scan finds it)
Eligible(sym, day) ==
    /\ Payable(sym, day)
    /\ ~has_symbol_dividend_on_date(holdings[sym], sym, day)
    /\ ~has_cash_dividend_on_date(cash_events, sym, day)

\* ingested on one side only (by an earlier reinvesting call, or hidden by
\* another symbol's cash dividend)
HalfIngested(sym, day) ==
    /\ Payable(sym, day)
    /\ has_symbol_dividend_on_date(holdings[sym], sym, day)
         # has_cash_dividend_on_date(cash_events, sym, day)

Added(before, after) == SubSeq(after, Len(before) + 1, Len(after))

DividendOf(sym, day) ==
    Event(Iso(day), "dividend", 0, 0, divs[day] * OwnedOn(holdings[sym], day),
          Marker("DIV", sym))

\* C10 as claimed: with reinvestment disabled, an eligible ex-dividend date
\* makes ingest add exactly one dividend event and increases events_added by
\* exactly 1 (a call over one eligible ex-date returns 1).
C10_OneEventPerExDate ==
    \A a \in IngestArgs :
        LET r == FirstCall(a)
        IN  (/\ ~a.reinvest
             /\ ~r.err
             /\ \E d \in Days : ExDatesIn(a.start, a.end) = {d} /\ Eligible(a.sym, d))
            => /\ r.changes = 1
               /\ Len(Added(holdings[a.sym], r.ev)) + Len(Added(cash_events, r.cash)) = 1

\* C10 as amended: with reinvestment disabled, each eligible ex-dividend date
\* makes ingest add exactly two dividend events, one to the holding's events
\* and one to portfolio.cash_events, each with amount per_share x shares owned
\* and the note DIV:<SYMBOL>, and increases events_added by exactly 2 (by 1
\* for a date ingested on one side only, by 0 for every other date).
C10_TwoEventsPerExDate ==
    \A a \in IngestArgs :
        LET r == FirstCall(a)
            newEv == Added(holdings[a.sym], r.ev)
            newCash == Added(cash_events, r.cash)
            ex == ExDatesIn(a.start, a.end)
        IN  (~a.reinvest /\ ~r.err) =>
              /\ \A d \in ex : Eligible(a.sym, d) =>
                    /\ Cardinality({i \in 1..Len(newEv) :
                           NormalizeDate(newEv[i].date) = Iso(d)}) = 1
                    /\ Cardinality({i \in 1..Len(newCash) :
                           NormalizeDate(newCash[i].date) = Iso(d)}) = 1
                    /\ \E i \in 1..Len(newEv) : newEv[i] = DividendOf(a.sym, d)
                    /\ \E i \in 1..Len(newCash) : newCash[i] = DividendOf(a.sym, d)
              /\ r.changes = 2 * Cardinality({d \in ex : Eligible(a.sym, d)})
                               + Cardinality({d \in ex : HalfIngested(a.sym, d)})
              /\ r.changes = Len(newEv) + Len(newCash)

\* 10 shares of A owned on day 2, per-share 2: a dividend of 20 was posted to
\* the holding and to the portfolio's cash events
C10_Witness ==
    /\ \E i \in 1..Len(holdings[SymA]) :
          /\ holdings[SymA][i].type = "dividend"
          /\ holdings[SymA][i].amount = 20
          /\ holdings[SymA][i].note = Marker("DIV", SymA)
    /\ \E i \in 1..Len(cash_events) :
          /\ cash_events[i].type = "dividend"
          /\ cash_events[i].amount = 20
          /\ cash_events[i].note = Marker("DIV", SymA)
    /\ \A i \in 1..Len(holdings[SymA]) : holdings[SymA][i].type # "purchase"
                                          \/ holdings[SymA][i].note = NoNote

\* The shares owned on day d by the events, the DRIP purchase of day d
\* itself left out: the count ingest uses for the dividend of day d.
OwnedBeforeDrip(events, sym, d) ==
    OwnedOn(SelectSeq(events, LAMBDA e :
                ~(e.type = "purchase" /\ e.note = Marker("DRIP", sym)
                    /\ NormalizeDate(e.date) = Iso(d))), d)

DripShares(events, sym, d) ==
    SumOver(events, {i \in 1..Len(events) :
        /\ events[i].type = "purchase"
        /\ events[i].note = Marker("DRIP", sym)
        /\ NormalizeDate(events[i].date) = Iso(d)})

IsDrip(e) == e.type = "purchase" /\ e.note = Marker("DRIP", SymA)

\* the days of [day, day + PriceWindowDays] that have a price
PricedWithin(day) ==
    {d \in day..(day + PriceWindowDays) : d <= Horizon /\ prices[d] # NoRow}

\* C34: every DRIP purchase of A in the portfolio, dated D, has the close
\* of the first day of [D, D+5] that has a price, which is above 0, and the
\* shares that the dividend of D buys at it; so none is there when no day
\* of [D, D+5] has a price, and no price of a later day is used.
C34_DripPriceWithinFiveDays ==
    \A i \in 1..Len(holdings[SymA]) :
        LET e == holdings[SymA][i]
            W == PricedWithin(e.date.d)
        IN  IsDrip(e) =>
              /\ W # {}
              /\ e.price = prices[CHOOSE d \in W : \A o \in W : d <= o]
              /\ e.price > 0
              /\ e.shares = (divs[e.date.d] * OwnedBeforeDrip(holdings[SymA], SymA, e.date.d))
                                \div e.price

\* C35 as stated: a call with reinvestment leaves portfolio.cash_events as
\* they were and adds no dividend event, only purchases marked DRIP; a call
\* without reinvestment adds no purchase and leaves the shares owned on
\* every day as they were.
C35_OnePostingPath ==
    \A a \in IngestArgs :
        LET r == FirstCall(a)
            newEv == Added(holdings[a.sym], r.ev)
        IN  ~r.err =>
              IF a.reinvest
              THEN /\ r.cash = cash_events
                   /\ \A i \in 1..Len(newEv) :
                         newEv[i].type = "purchase" /\ newEv[i].note = Marker("DRIP", a.sym)
              ELSE /\ \A i \in 1..Len(newEv) : newEv[i].type # "purchase"
                   /\ \A d \in Days : OwnedOn(r.ev, d) = OwnedOn(holdings[a.sym], d)

\* C35, amended: a call with reinvestment leaves portfolio.cash_events as
\* they were and adds to the holding dividend events marked DIV and
\* purchases marked DRIP, each purchase on a date that has the holding's
\* dividend event; a call without reinvestment adds no purchase and leaves
\* the shares owned on every day as they were.
C35_HoldingDividendOnBothPaths ==
    \A a \in IngestArgs :
        LET r == FirstCall(a)
            newEv == Added(holdings[a.sym], r.ev)
        IN  ~r.err =>
              IF a.reinvest
              THEN /\ r.cash = cash_events
                   /\ \A i \in 1..Len(newEv) :
                         \/ /\ newEv[i].type = "dividend"
                            /\ newEv[i].note = Marker("DIV", a.sym)
                         \/ /\ newEv[i].type = "purchase"
                            /\ newEv[i].note = Marker("DRIP", a.sym)
                            /\ has_symbol_dividend_on_date(r.ev, a.sym, newEv[i].date.d)
              ELSE /\ \A i \in 1..Len(newEv) : newEv[i].type # "purchase"
                   /\ \A d \in Days : OwnedOn(r.ev, d) = OwnedOn(holdings[a.sym], d)

\* a call with reinvestment has run on A alone: the holding has the
\* dividend event and the DRIP purchase of day 2, and the portfolio has no
\* cash event
C35_Witness ==
    /\ cash_events = <<>>
    /\ has_symbol_dividend_on_date(holdings[SymA], SymA, 2)
    /\ has_drip_purchase_on_date(holdings[SymA], SymA, 2)
    /\ \A i \in 1..Len(holdings[SymAB]) : holdings[SymAB][i].type = "purchase"

\* the date text of the event is empty or no date in any accepted spelling
BadDate(e) == ~NonEmpty(e.date) \/ ~TimestampParses(e.date)

\* the events that have a date
WellDated(events) == Pick(events, {i \in 1..Len(events) : ~BadDate(events[i])}, 1)

\* C36: events with an unparsable or empty date never abort derivation: such
\* an event contributes nothing to any value row and nothing to the shares
\* owned on any date, and neither compute_and_write_values_for_holding nor
\* the dividend ingestion of the holding, or of the other holdings of the
\* same portfolio file, fails because of it.
C36_BadDatesNeverAbort ==
    LET ev == holdings[SymA]
    IN  /\ compute_and_write_values_for_holding(ev, Iso(1), prices)
             = compute_and_write_values_for_holding(WellDated(ev), Iso(1), prices)
        /\ \A d \in Days :
              /\ ~compute_owned_shares_on_date(ev, d).err
              /\ compute_owned_shares_on_date(ev, d).shares = OwnedOn(ev, d)
        /\ \A a \in IngestArgs : ~FirstCall(a).err
        /\ \A reinvest \in BOOLEAN : ~CacheAndIngestResult(reinvest).err

\* C11: DRIP compounding visibility: when cache_and_ingest_dividends_for_file
\* returns with reinvestment enabled, for ex-dates D1 < D2 of a symbol whose
\* holding has the DRIP purchase of D1, every event the call added for D2 was
\* computed from an owned-share count that includes the DRIP shares of D1:
\* the dividend's amount is per_share x that count, the DRIP purchase's
\* shares are that amount / price.
C11_DripCompounds ==
    LET r == CacheAndIngestResult(TRUE)
    IN  ~r.err =>
        \A sym \in Symbols, d1 \in Days, d2 \in Days :
            (/\ d1 < d2 /\ divs[d1] # NoRow /\ divs[d2] # NoRow
             /\ has_drip_purchase_on_date(r.hold[sym], sym, d1))
            => LET new == Added(holdings[sym], r.hold[sym])
                   owned == OwnedBeforeDrip(r.hold[sym], sym, d2)
               IN  \A i \in 1..Len(new) :
                       NormalizeDate(new[i].date) = Iso(d2) =>
                         IF new[i].type = "dividend"
                         THEN new[i].amount = divs[d2] * owned
                         ELSE new[i].shares =
                                (divs[d2] * owned) \div
                                    first_available_close_price(prices, d2)

\* the file-level call has run on 10 shares of A bought on day 1, per-share
\* 2 on both ex-dates, close 2: the DRIP purchase of day 2 has 10 shares and
\* the dividend of the last day counts them
C11_Witness ==
    /\ read_dividend_cache(divCache[SymA]) # {}
    /\ DripShares(holdings[SymA], SymA, 2) = 10
    /\ \E i \in 1..Len(holdings[SymA]) :
          /\ holdings[SymA][i].type = "dividend"
          /\ holdings[SymA][i].date = Iso(MaxDay)
          /\ holdings[SymA][i].amount = 2 * (10 + 10)

\* the call over the wider range w, on what the first call left in r
WidenedCall(r, a, w) ==
    ingest_dividends_for_holding_range(r.ev, r.cash, a.sym, w.s, w.e,
                                       a.reinvest, divs, prices)

Widenings(a) ==
    {w \in [s : Days, e : Days] : w.s <= a.start /\ a.end <= w.e}

\* C12 as claimed: after ingest over [s, e], an ingest over a wider range
\* [s', e'] appends only events dated at ex-dates of [s', e'] outside [s, e].
C12_OnlyNewlyCovered ==
    \A a \in IngestArgs :
        LET r1 == FirstCall(a)
        IN  ~r1.err => \A w \in Widenings(a) :
              LET r2 == WidenedCall(r1, a, w)
                  new == Added(r1.ev, r2.ev) \o Added(r1.cash, r2.cash)
              IN  ~r2.err => \A i \in 1..Len(new) :
                    /\ new[i].date.fmt = "iso"
                    /\ new[i].date.d \in ExDatesIn(w.s, w.e) \ (a.start..a.end)

\* C12 as amended: the widened call appends only events dated at ex-dates of
\* [s', e'], and none at an ex-date of [s, e] except one the first call
\* passed over because no shares were owned on it.
C12_NewlyCoveredOrUnowned ==
    \A a \in IngestArgs :
        LET r1 == FirstCall(a)
        IN  ~r1.err => \A w \in Widenings(a) :
              LET r2 == WidenedCall(r1, a, w)
                  new == Added(r1.ev, r2.ev) \o Added(r1.cash, r2.cash)
              IN  ~r2.err => \A i \in 1..Len(new) :
                    /\ new[i].date.fmt = "iso"
                    /\ new[i].date.d \in ExDatesIn(w.s, w.e)
                    /\ new[i].date.d \in a.start..a.end =>
                          OwnedBeforeDrip(r1.ev, a.sym, new[i].date.d) = 0

\* ingestion has run over the last day only, and widening it to all days
\* adds events for the newly covered day 2 and for no other day
C12_Witness ==
    /\ has_symbol_dividend_on_date(holdings[SymA], SymA, MaxDay)
    /\ ~has_symbol_dividend_on_date(holdings[SymA], SymA, 2)
    /\ \E reinvest \in BOOLEAN :
          LET a == [sym |-> SymA, start |-> MaxDay, end |-> MaxDay, reinvest |-> reinvest]
              r1 == FirstCall(a)
              r2 == WidenedCall(r1, a, [s |-> 1, e |-> MaxDay])
              new == Added(r1.ev, r2.ev) \o Added(r1.cash, r2.cash)
          IN  /\ ~r2.err
              /\ r1.changes = 0
              /\ Len(new) >= 2
              /\ \A i \in 1..Len(new) : new[i].date = Iso(2)

\* ------------------------------------------------------ warm: the claims
Quiescent == ui.pc = "idle" /\ warm.pc \in {"idle", "returned"}

\* the values file of s was computed from events older than the portfolio
\* file's, which include a dated one
Outdated(s) ==
    /\ portFile[s].dated
    /\ cacheFile[s].exists
    /\ cacheFile[s].ver # portFile[s].ver

\* no later warm would recompute s: it is not dirty and not stale by mtime
Settled(s) == s \notin dirtyFile /\ cacheFile[s].mtime >= portMtime

\* C4: edits made while the worker recomputes are never masked: with the
\* edit handler and the warm pass both at rest, no symbol has a values file
\* that derives from pre-edit events while it is neither dirty nor stale by
\* mtime.
C4_EditsNeverMasked ==
    Quiescent => \A s \in Symbols : ~(Outdated(s) /\ Settled(s))

\* the values file of s is there, no older than the portfolio file, and s is
\* not in the dirty set
Fresh(s) ==
    /\ cacheFile[s].exists
    /\ cacheFile[s].mtime >= portMtime
    /\ s \notin dirtyFile

\* C5: while warm is at a holding whose values file exists with a
\* modification time >= the portfolio file's and whose symbol is not in the
\* dirty set, it does not rewrite that values file, does not count the
\* holding and does not clear anything: it goes on to the next holding.
C5_FreshNotRecomputed ==
    [][(warm.pc = "loop" /\ warm.todo # <<>> /\ Fresh(Head(warm.todo))
            /\ warm' # warm)
        => /\ cacheFile' = cacheFile
           /\ warm'.changes = warm.changes
           /\ warm'.recomputed = warm.recomputed
           /\ warm'.pc = "loop"
           /\ warm'.todo = Tail(warm.todo)]_vars

\* a warm that recomputed one holding and passed over the other, which is
\* fresh and has dated events
C5_Witness ==
    /\ warm.pc = "returned"
    /\ \E s \in Symbols :
          /\ s \notin warm.recomputed
          /\ Fresh(s)
          /\ warm.port[s].dated
          /\ warm.recomputed # {}
          /\ warm.changes > 0

\* C6, as stated: a warm that has returned has recomputed every holding
\* whose symbol was in the dirty set it read (which holds every symbol that
\* was dirty when the warm started: nothing but warm removes a symbol).
C6_DirtyAllRecomputed ==
    warm.pc = "returned" => \A s \in warm.dirty : s \in warm.recomputed

\* C6, amended: a warm that has returned has recomputed every holding whose
\* symbol was in the dirty set and which has an event with a non-empty
\* date, whatever the modification times.
C6_DirtyDatedRecomputed ==
    warm.pc = "returned" =>
        \A s \in warm.dirty : warm.port[s].dated => s \in warm.recomputed

\* a returned warm that recomputed a dirty holding although the portfolio
\* file was no newer than any values file, and skipped a dirty holding
\* without dated events
C6_Witness ==
    /\ warm.pc = "returned"
    /\ warm.port_mtime = 0
    /\ \E s \in warm.dirty : warm.port[s].dated /\ s \in warm.recomputed
    /\ \E s \in warm.dirty : ~warm.port[s].dated /\ s \notin warm.recomputed

\* C7: whenever warm removes the symbol of the holding it is at from the
\* dirty set, compute_and_write_values_for_holding has just returned true
\* for it.
C7_ClearedOnlyAfterSuccess ==
    [][(warm.pc = "clearWrite"
            /\ Head(warm.todo) \in dirtyFile
            /\ Head(warm.todo) \notin dirtyFile')
        => ComputeOk(Head(warm.todo))]_vars

\* ---------------------------------------------------- worker: the claims
\* C8: the worker leaves the task loop only on a stop task: whatever the
\* tasks and whatever fails, it never dies.
C8_OnlyStopTerminates == worker.pc # "crashed"

\* handling t meets a failure of the provider, and no other failure
HitsGatewayFailure(t) ==
    /\ t.gw = "fail"
    /\ t.type \in {"ingest_dividends", "prefetch_symbol", "realtime:update_all"}
    /\ t.type = "prefetch_symbol" => t.arg = "given"
    /\ t.type = "realtime:update_all" => storeOk

\* the message a task's handler sends when nothing fails
ProgressOf(t) ==
    IF t.type = "ingest_dividends" THEN "dividends:ingested"
    ELSE IF t.type = "prefetch_symbol" THEN "prefetch:one"
    ELSE IF t.type = "realtime:update_all" THEN "realtime:updated"
    ELSE "none"

\* nothing fails while t is handled, and its handler has a message to send
NormalTask(t) ==
    /\ t.gw = "ok"
    /\ ProgressOf(t) # "none"
    /\ t.type = "prefetch_symbol" => t.arg = "given"
    /\ t.type \in {"ingest_dividends", "realtime:update_all"} => storeOk

Sent(type, n) ==
    \E i \in 1..Len(progressQ) : progressQ[i] = [type |-> type, task |-> n]

\* C9: when the queue holds a task whose handling hits a gateway failure
\* and then a normal task, the worker eventually handles the second task
\* and sends that task's progress message.
C9_SecondTaskHandled ==
    \A m \in {"dividends:ingested", "prefetch:one", "realtime:updated"} :
        (/\ worker.pc = "recv" /\ worker.n = 0 /\ Len(taskQ) >= 2
         /\ HitsGatewayFailure(taskQ[1])
         /\ NormalTask(taskQ[2]) /\ ProgressOf(taskQ[2]) = m)
        ~> (worker.n >= 2 /\ Sent(m, 2))

\* the first task's failure was reported and the second task's message sent
C9_Witness ==
    /\ Sent("prefetch:error", 1)
    /\ Sent("dividends:ingested", 2)
    /\ worker.pc = "recv"

\* C14: on a warm_values task, the portfolio file loading, the worker warms
\* the path and sends values:warmed (then journal:rebuilt) for it.
C14_WarmValuesWarms ==
    [][(worker.pc = "dispatch" /\ worker.task.type = "warm_values" /\ storeOk)
        => \E i \in 1..Len(progressQ') :
              progressQ'[i] = [type |-> "values:warmed", task |-> worker.n]]_vars

\* the types of the progress messages, and the calls [what, ret], of task n
TypesOf(q, n) == {q[i].type : i \in {j \in 1..Len(q) : q[j].task = n}}

CallsOf(cs, n) == {Call(cs[i].what, cs[i].ret) : i \in {j \in 1..Len(cs) : cs[j].task = n}}

Whats(cset) == {c.what : c \in cset}

DispatchesType(type) == worker.pc = "dispatch" /\ worker.task.type = type

CountType(q, type) == Cardinality({i \in 1..Len(q) : q[i].type = type})

C17_StopIsFinal ==
    /\ [](\/ CountType(progressQ, "worker:stopping") = 0 /\ worker.pc # "stopped"
          \/ /\ worker.pc = "stopped"
             /\ CountType(progressQ, "worker:stopping") = 1
             /\ progressQ[Len(progressQ)].type = "worker:stopping")
    /\ [][/\ DispatchesType("stop")
             => /\ worker'.pc = "stopped"
                /\ progressQ' = Append(progressQ, [type |-> "worker:stopping",
                                                   task |-> worker.n])
                /\ calls' = calls
          /\ worker.task.type = "stop"
             => worker'.task.type = "stop" \/ worker'.pc = "stopped"
          /\ worker.pc = "stopped"
             => UNCHANGED <<progressQ, calls, worker, taskQ>>]_vars

\* the worker stopped with a task still queued behind the stop
C17_Witness ==
    /\ worker.pc = "stopped"
    /\ taskQ # <<>>
    /\ progressQ # <<>>
    /\ progressQ[Len(progressQ)].type = "worker:stopping"

KnownTypes == {"warm_values", "ingest_dividends", "prefetch_symbol",
               "realtime:update_all", "stop"}

\* C18: the dispatch of a task of no known type sends no message, makes no
\* call into the modules that write the caches and the portfolio file, and
\* leaves the worker at the head of the loop, the queue as it was.
C18_UnknownIgnored ==
    [][(worker.pc = "dispatch" /\ worker.task # NoTask
           /\ worker.task.type \notin KnownTypes)
        => /\ progressQ' = progressQ
           /\ calls' = calls
           /\ worker'.pc = "recv"
           /\ UNCHANGED <<taskQ, storeOk, batch, ingestVars, valueVars, warmVars>>]_vars

\* a task of unknown type was the first handled, nothing was sent for it,
\* and the worker is back at the head of the loop with a task waiting
C18_Witness ==
    /\ worker.pc = "recv"
    /\ worker.n = 1
    /\ worker.task.type \notin KnownTypes \cup {"none"}
    /\ TypesOf(progressQ, 1) = {}
    /\ CallsOf(calls, 1) = {}
    /\ taskQ # <<>>

BatchDone == batch # <<>> /\ batch.i > Len(batch.items)

ErrorTypes == {"prefetch:error", "realtime:error", "values:error", "dividends:error"}

\* C19: when a batch is over, every item of it was processed, and every item
\* whose processing raised has an *:error message.
C19_ItemFailuresContained ==
    BatchDone =>
        /\ batch.processed = 1..Len(batch.items)
        /\ \A k \in 1..Len(batch.items) :
              batch.items[k] = "raises"
                 => \E j \in 1..Len(batch.sent) :
                       /\ batch.sent[j].type \in ErrorTypes
                       /\ batch.sent[j].item \in {k, 0}

C31_NoLostDirtyMark ==
    [][\A a \in Symbols :
          (/\ warm.pc = "clearWrite"
           /\ warm'.pc = "loop"
           /\ Head(warm.todo) # a
           /\ a \in dirtyFile)
          => a \in dirtyFile']_vars

\* C38: every journal:rebuilt message the worker sends, in the startup run,
\* on a maintenance tick or in the handler of a task, is sent in a step in
\* which a call of build_journal_csv_streaming returned.
C38_RebuiltMeansBuilt ==
    [][\A k \in (Len(progressQ) + 1)..Len(progressQ') :
          progressQ'[k].type = "journal:rebuilt" =>
             \E j \in (Len(calls) + 1)..Len(calls') :
                calls'[j].what = "journal" /\ calls'[j].ret = "done"]_vars

====
